---- MODULE Spec2Model ----
(***************************************************************************)
(* A model of the tracker's time-series engine and of the pan controller   *)
(* of its chart element.                                                   *)
(*                                                                         *)
(*   Spec        the ChronosChart pan controller (src/chronos-chart.js)    *)
(*   SpecStats   calculateStats (src/analytics.js)                        *)
(*   SpecRunning calculateRunningMetric (src/analytics.js)                 *)
(*   SpecPeriod  getPeriodData and the week-start call sites               *)
(*               (src/analytics.js)                                        *)
(*   SpecStatsArgs, SpecStatsPeriod                                        *)
(*               calculateStats on explicit arguments, alone and beside    *)
(*               getPeriodData (src/analytics.js)                          *)
(*   SpecRange   filterByRange and the period filters (src/analytics.js)   *)
(*   SpecXScale  createXScale (src/calendar.js)                            *)
(*   SpecYScale  generateYValues and createYScale (src/calendar.js)        *)
(*   SpecPath    generateSmoothPath and the tension ChronosChart passes    *)
(*               to it (src/calendar.js, src/chronos-chart.js)             *)
(*   SpecRolling the rolling lines of prepareChartDatasets and of          *)
(*               SeriesChart.updateChart, and calculateSeriesSummary       *)
(*   SpecGrid    getVisibleDateRange and the month bands of drawGrid       *)
(*   SpecWindow  the relative ranges of filterByRange,                     *)
(*               updateChartTimeRange and SeriesChart.updateChart          *)
(*   SpecIncrement                                                         *)
(*               quick increments over IndexedDB (ChronosDB, SerieCard)    *)
(*                                                                         *)
(* Day quantities of the pan controller (offsets, view lengths, the data   *)
(* span) are kept in fixed point, in units of 1/Scale day, where Scale is  *)
(* a multiple of every chart width of the model: the quotient              *)
(* maxPanOffset / chartWidth of updatePan is then exact.                   *)
(***************************************************************************)
EXTENDS Integers, Sequences, FiniteSets, TLC

VARIABLES
    \* ---- ChronosChart (src/chronos-chart.js) ----
    data,             \* _data, as the set of day numbers of its points
    optViewDays,      \* _options.viewDays (days)
    originalViewDays, \* _originalViewDays (days)
    panOffset,        \* _panOffset (1/Scale days)
    isPanning,        \* _isPanning
    panStartX,        \* _panStartX (pixels)
    panStartOffset,   \* _panStartOffset (1/Scale days)
    panReadyClass,    \* .chart-container has class pan-ready
    panningClass,     \* .chart-container has class panning
    lastOp,           \* observer: the handler that ran last
    pre,              \* observer: _panOffset and _isPanning before it ran
    dragOnly,         \* observer: a pointer-down started a drag and only
                      \* pointer-moves have followed it
    \* ---- calculateStats / calculateRunningMetric (src/analytics.js) ----
    inValues,         \* values, in chronological order
    inLabels,         \* labels, aligned with values
    inMetric,         \* metric: the statistic id
    inWindow,         \* windowSize
    outStats,         \* calculateStats(sorted values, values)
    outRunning,       \* calculateRunningMetric(values, labels, metric, windowSize)
    statsPc,          \* "off", "input", "stats", "running" or "called"
    csArgs,           \* the three arguments of one calculateStats call
    \* ---- getPeriodData and the period filters (src/analytics.js) ----
    pdEntries,        \* entries: records of a timestamp string and a value
    pdPeriod,         \* period
    pdNow,            \* what new Date() returns to the period filters
    outPeriod,        \* getPeriodData(entries, period)
    outFiltered,      \* filterEntriesByPeriod(entries, period)
    outLegacy,        \* the entries calculateLegacySummary keeps for period
    outRange,         \* filterByRange(entries, period, customDays), with the
                      \* customDays passed
    periodPc,         \* "off", "input", "period", "filter", "legacy" or "range"
    \* ---- createXScale (src/calendar.js) ----
    xsArgs,           \* points, chartWidth, viewDays, panOffset of one call
    xScale,           \* the function createXScale returned, as what it closes
                      \* over: visibleMinX, visibleMaxX, tickDates, chartWidth
    \* ---- generateYValues / createYScale (src/calendar.js) ----
    ysArgs,           \* points (their y), chartHeight, logScale, count
    yScale,           \* ticks: generateYValues(y values, count, logScale);
                      \* scale: the function createYScale returned, as its
                      \* branch and what it closes over
    \* ---- single calls of the remaining pure functions ----
    fnCall,           \* the function called (fn) and its arguments
    fnOut             \* what the call returned

chartVars == <<data, optViewDays, originalViewDays, panOffset, isPanning,
               panStartX, panStartOffset, panReadyClass, panningClass,
               lastOp, pre, dragOnly>>

statsVars == <<inValues, inLabels, inMetric, inWindow, outStats, outRunning,
               statsPc, csArgs>>

periodVars == <<pdEntries, pdPeriod, pdNow, outPeriod, outFiltered, outLegacy,
                outRange, periodPc>>

scaleVars == <<xsArgs, xScale, ysArgs, yScale>>

callVars == <<fnCall, fnOut>>

vars == <<chartVars, statsVars, periodVars, scaleVars, callVars>>

-----------------------------------------------------------------------------
(* Bounds *)

MaxSpan == 2
MaxView == 1
MaxX == 2
\* calculateStats / calculateRunningMetric: the longest value list, the
\* largest value, and the grid of quantile parameters k / QuantileSteps
MaxLen == 4
MaxValue == 2
QuantileSteps == 4
\* getPeriodData: the longest entry list
MaxEntries == 2
\* calculateStats: the longest originalOrder and entries arguments
MaxOriginal == 2

-----------------------------------------------------------------------------
(* Arithmetic helpers *)

Max(a, b) == IF a >= b THEN a ELSE b
Min(a, b) == IF a <= b THEN a ELSE b

Abs(x) == IF x < 0 THEN -x ELSE x

RECURSIVE Gcd(_, _)
Gcd(a, b) == IF b = 0 THEN a ELSE Gcd(b, a % b)

\* JavaScript numbers that are not integers are kept as reduced fractions
\* n / d with d > 0.
Rat(n, d) ==
    LET sgn == IF d < 0 THEN -1 ELSE 1
        g == Gcd(Abs(n), Abs(d))
    IN  [n |-> (sgn * n) \div g, d |-> (sgn * d) \div g]
RatOf(i) == [n |-> i, d |-> 1]
RatAdd(a, b) == Rat(a.n * b.d + b.n * a.d, a.d * b.d)
RatSub(a, b) == Rat(a.n * b.d - b.n * a.d, a.d * b.d)
RatMul(a, b) == Rat(a.n * b.n, a.d * b.d)
RatLe(a, b) == a.n * b.d <= b.n * a.d
RatLt(a, b) == a.n * b.d < b.n * a.d
\* Math.floor
RatFloor(a) == a.n \div a.d

\* One day in fixed-point units.
Scale == MaxX

SetMax(S) == CHOOSE x \in S : \A y \in S : y <= x
SetMin(S) == CHOOSE x \in S : \A y \in S : x <= y

-----------------------------------------------------------------------------
(* ChronosChart: inputs *)

\* A loaded chart data object, as the days of its points (all datasets):
\* no point, or a first point on day 1 and a last point up to MaxSpan days
\* later.
DataValues == {{}} \cup {{1, 1 + span} : span \in 0..MaxSpan}
ViewValues == 0..MaxView
ClientXs == 0..MaxX
\* container.clientWidth less the horizontal padding: the positive widths
\* that divide Scale, so that maxPanOffset / chartWidth is exact.
ChartWidths == {w \in 1..MaxX : Scale % w = 0}
\* panTo's argument in whole days: below 0, inside and above every span.
PanToArgs == {d * Scale : d \in -1..(MaxSpan + 1)}
\* A 'view-days' attribute string: a number, or text that holds none.
AttrViewValues == [text : {"num"}, n : ViewValues] \cup [text : {"junk"}, n : {0}]
\* A 'data' attribute string: JSON of a data object, or text that is not JSON.
AttrDataValues == [json : {TRUE}, value : DataValues] \cup [json : {FALSE}, value : {{}}]
\* An options object: with a viewDays key or without one.
OptionValues ==
    [hasViewDays : {TRUE}, viewDays : ViewValues] \cup [hasViewDays : {FALSE}, viewDays : {0}]

\* parseInt(newValue) || 0
ParseIntOrZero(s) == IF s.text = "num" THEN s.n ELSE 0

\* getTotalDataDays(chartData): the span of the points, 0 without points.
getTotalDataDays(chartData) ==
    IF chartData = {} THEN 0
    ELSE (SetMax(chartData) - SetMin(chartData)) * Scale

-----------------------------------------------------------------------------
(* Dates.  A string is the sequence of its UTF-16 code units ("0".."9" are *)
(* 48..57, "-" is 45, " " is 32, ":" is 58).  A Date is read through its   *)
(* local-time fields: getFullYear, getMonth (0..11), getDate, getHours,    *)
(* getMinutes, getSeconds.  Entry timestamps carry no time zone, so every  *)
(* conversion stays in local time.                                         *)

\* new Date(year, month, date, hours, minutes, seconds)
newDate(year, month, date, hours, minutes, seconds) ==
    [year |-> year, month |-> month, date |-> date,
     hours |-> hours, minutes |-> minutes, seconds |-> seconds]

\* A number zero-padded to two and to four digits.
Digits2(n) == <<48 + ((n \div 10) % 10), 48 + (n % 10)>>
Digits4(n) == <<48 + ((n \div 1000) % 10), 48 + ((n \div 100) % 10)>> \o Digits2(n)

RECURSIVE ReadNumber(_, _, _)
\* The decimal number written at positions from..to (1-based) of a string.
ReadNumber(str, from, to) ==
    IF to < from THEN 0
    ELSE 10 * ReadNumber(str, from, to - 1) + (str[to] - 48)

\* format(date, 'yyyy-MM-dd')
formatYMD(date) ==
    Digits4(date.year) \o <<45>> \o Digits2(date.month + 1) \o <<45>>
        \o Digits2(date.date)

\* getFormattedISO(d): format(d, 'yyyy-MM-dd HH:mm:ss')
getFormattedISO(d) ==
    formatYMD(d) \o <<32>> \o Digits2(d.hours) \o <<58>> \o Digits2(d.minutes)
        \o <<58>> \o Digits2(d.seconds)

\* parseISO(timestamp) of 'yyyy-MM-dd' or 'yyyy-MM-dd HH:mm:ss': a date
\* without a time is local midnight.
parseISO(timestamp) ==
    IF Len(timestamp) > 10
    THEN newDate(ReadNumber(timestamp, 1, 4), ReadNumber(timestamp, 6, 7) - 1,
                 ReadNumber(timestamp, 9, 10), ReadNumber(timestamp, 12, 13),
                 ReadNumber(timestamp, 15, 16), ReadNumber(timestamp, 18, 19))
    ELSE newDate(ReadNumber(timestamp, 1, 4), ReadNumber(timestamp, 6, 7) - 1,
                 ReadNumber(timestamp, 9, 10), 0, 0, 0)

\* The number of days from 1970-01-01 to the civil date year-month-day
\* (month 1..12) of the proleptic Gregorian calendar.
DaysFromCivil(year, month, day) ==
    LET y == IF month <= 2 THEN year - 1 ELSE year
        era == y \div 400
        yoe == y - era * 400
        doy == ((153 * (IF month > 2 THEN month - 3 ELSE month + 9) + 2) \div 5) + day - 1
        doe == yoe * 365 + (yoe \div 4) - (yoe \div 100) + doy
    IN  era * 146097 + doe - 719468

\* The civil date (month 1..12) that many days after 1970-01-01.
CivilFromDays(days) ==
    LET z == days + 719468
        era == z \div 146097
        doe == z - era * 146097
        yoe == (doe - (doe \div 1460) + (doe \div 36524) - (doe \div 146096)) \div 365
        doy == doe - (365 * yoe + (yoe \div 4) - (yoe \div 100))
        mp == (5 * doy + 2) \div 153
        day == doy - ((153 * mp + 2) \div 5) + 1
        month == IF mp < 10 THEN mp + 3 ELSE mp - 9
    IN  [year |-> IF month <= 2 THEN yoe + era * 400 + 1 ELSE yoe + era * 400,
         month |-> month, day |-> day]

\* The days from 1970-01-01 to a Date's local calendar day.
dayNumber(date) == DaysFromCivil(date.year, date.month + 1, date.date)

\* date.getDay(): 0 is Sunday; 1970-01-01 was a Thursday.
getDay(date) == (dayNumber(date) + 4) % 7

\* date.setDate(date.getDate() - diff); date.setHours(0, 0, 0, 0)
midnightDaysBefore(date, diff) ==
    LET civil == CivilFromDays(dayNumber(date) - diff)
    IN  newDate(civil.year, civil.month - 1, civil.day, 0, 0, 0)

\* startOfDay(date)
startOfDay(date) == newDate(date.year, date.month, date.date, 0, 0, 0)

\* startOfWeek(date, {weekStartsOn})
startOfWeek(date, weekStartsOn) ==
    LET day == getDay(date)
        diff == (IF day < weekStartsOn THEN 7 ELSE 0) + day - weekStartsOn
    IN  midnightDaysBefore(date, diff)

\* startOfMonth(date)
startOfMonth(date) == newDate(date.year, date.month, 1, 0, 0, 0)

\* startOfYear(date)
startOfYear(date) == newDate(date.year, 0, 1, 0, 0, 0)

\* subDays(date, amount): the same time of day, amount days earlier
subDays(date, amount) ==
    LET civil == CivilFromDays(dayNumber(date) - amount)
    IN  newDate(civil.year, civil.month - 1, civil.day,
                date.hours, date.minutes, date.seconds)

\* The number of days of month (0..11) of year.
getDaysInMonth(year, month) ==
    IF month = 11 THEN 31
    ELSE DaysFromCivil(year, month + 2, 1) - DaysFromCivil(year, month + 1, 1)

\* subMonths(date, amount): addMonths(date, -amount), which keeps the day of
\* the month unless the target month is shorter, and the time of day.
subMonths(date, amount) ==
    LET months == date.year * 12 + date.month - amount
        year == months \div 12
        month == months % 12
        daysInMonth == getDaysInMonth(year, month)
    IN  newDate(year, month,
                IF date.date >= daysInMonth THEN daysInMonth ELSE date.date,
                date.hours, date.minutes, date.seconds)

\* subYears(date, amount): addMonths(date, -12 * amount)
subYears(date, amount) == subMonths(date, 12 * amount)

\* a >= b on two Dates
dateGeq(a, b) ==
    LET secondsOf(d) == (d.hours * 60 + d.minutes) * 60 + d.seconds
    IN  \/ dayNumber(a) > dayNumber(b)
        \/ dayNumber(a) = dayNumber(b) /\ secondsOf(a) >= secondsOf(b)

-----------------------------------------------------------------------------
(* analytics.js: calculateStats and calculateRunningMetric.  A JavaScript  *)
(* array is a sequence; At reads it by its 0-based index.                  *)

At(arr, i) == arr[i + 1]
\* arr.slice(from, to)
Slice(arr, from, to) == SubSeq(arr, from + 1, to)

RECURSIVE SumSeq(_)
\* arr.reduce((a, b) => a + b, 0)
SumSeq(arr) == IF arr = <<>> THEN 0 ELSE Head(arr) + SumSeq(Tail(arr))

RECURSIVE InsertAsc(_, _)
InsertAsc(x, arr) ==
    IF arr = <<>> THEN <<x>>
    ELSE IF x < Head(arr) THEN <<x>> \o arr
    ELSE <<Head(arr)>> \o InsertAsc(x, Tail(arr))

RECURSIVE SortAsc(_)
\* [...arr].sort((a, b) => a - b)
SortAsc(arr) ==
    IF arr = <<>> THEN <<>>
    ELSE InsertAsc(arr[Len(arr)], SortAsc(SubSeq(arr, 1, Len(arr) - 1)))

StatIds == {"mean", "dayMean", "sum", "count", "min", "q1", "median", "q3",
            "max", "first", "last"}

ZeroStats == [id \in StatIds |-> RatOf(0)]

\* getQuantile without the interpolation term
getQuantileNoInterpolation(sortedValues, quantile) ==
    LET position == RatMul(RatOf(Len(sortedValues) - 1), quantile)
        base == RatFloor(position)
    IN  RatOf(At(sortedValues, base))

\* getQuantile stepping back from sortedValues[base] instead of forward
getQuantileBackward(sortedValues, quantile) ==
    LET position == RatMul(RatOf(Len(sortedValues) - 1), quantile)
        base == RatFloor(position)
        remainder == RatSub(position, RatOf(base))
    IN  IF base + 1 < Len(sortedValues)
        THEN RatSub(RatOf(At(sortedValues, base)),
                    RatMul(remainder,
                           RatOf(At(sortedValues, base + 1) - At(sortedValues, base))))
        ELSE RatOf(At(sortedValues, base))

\* getQuantile(quantile), the closure of calculateStats over sortedValues
getQuantile(sortedValues, quantile) ==
    LET position == RatMul(RatOf(Len(sortedValues) - 1), quantile)
        base == RatFloor(position)
        remainder == RatSub(position, RatOf(base))
    IN  IF base + 1 < Len(sortedValues)
        THEN RatAdd(RatOf(At(sortedValues, base)),
                    RatMul(remainder,
                           RatOf(At(sortedValues, base + 1) - At(sortedValues, base))))
        ELSE RatOf(At(sortedValues, base))

\* The key calculateStats counts an entry's day under
dayKeyOf(e) ==
    IF e.timestamp = <<>> THEN <<>> ELSE formatYMD(parseISO(e.timestamp))

\* calculateStats answering an empty array from originalOrder
calculateStatsEmptyFromOriginal(sortedValues, originalOrder, entries) ==
    IF Len(sortedValues) = 0
    THEN [ZeroStats EXCEPT !.count = RatOf(Len(originalOrder)),
                           !.sum = RatOf(SumSeq(originalOrder))]
    ELSE
        LET sum == SumSeq(sortedValues)
            count == Len(sortedValues)
            uniqueDays == Cardinality({dayKeyOf(entries[i]) : i \in DOMAIN entries})
        IN  [mean |-> Rat(sum, count),
             dayMean |-> IF Len(entries) > 0 /\ uniqueDays > 0
                         THEN Rat(sum, uniqueDays) ELSE RatOf(0),
             sum |-> RatOf(sum),
             count |-> RatOf(count),
             min |-> RatOf(At(sortedValues, 0)),
             q1 |-> getQuantile(sortedValues, Rat(1, 4)),
             median |-> getQuantile(sortedValues, Rat(1, 2)),
             q3 |-> getQuantile(sortedValues, Rat(3, 4)),
             max |-> RatOf(At(sortedValues, Len(sortedValues) - 1)),
             first |-> IF Len(originalOrder) > 0 THEN RatOf(At(originalOrder, 0))
                       ELSE RatOf(At(sortedValues, 0)),
             last |-> IF Len(originalOrder) > 0
                      THEN RatOf(At(originalOrder, Len(originalOrder) - 1))
                      ELSE RatOf(At(sortedValues, Len(sortedValues) - 1))]

\* calculateStats taking first and last from the sorted array
calculateStatsSortedExtremes(sortedValues, originalOrder, entries) ==
    IF Len(sortedValues) = 0 THEN ZeroStats
    ELSE
        LET sum == SumSeq(sortedValues)
            count == Len(sortedValues)
            uniqueDays == Cardinality({dayKeyOf(entries[i]) : i \in DOMAIN entries})
        IN  [mean |-> Rat(sum, count),
             dayMean |-> IF Len(entries) > 0 /\ uniqueDays > 0
                         THEN Rat(sum, uniqueDays) ELSE RatOf(0),
             sum |-> RatOf(sum),
             count |-> RatOf(count),
             min |-> RatOf(At(sortedValues, 0)),
             q1 |-> getQuantile(sortedValues, Rat(1, 4)),
             median |-> getQuantile(sortedValues, Rat(1, 2)),
             q3 |-> getQuantile(sortedValues, Rat(3, 4)),
             max |-> RatOf(At(sortedValues, Len(sortedValues) - 1)),
             first |-> RatOf(At(sortedValues, 0)),
             last |-> RatOf(At(sortedValues, Len(sortedValues) - 1))]

\* calculateStats(sortedValues, originalOrder, entries)
calculateStats(sortedValues, originalOrder, entries) ==
    IF Len(sortedValues) = 0 THEN ZeroStats
    ELSE
        LET sum == SumSeq(sortedValues)
            count == Len(sortedValues)
            uniqueDays == Cardinality({dayKeyOf(entries[i]) : i \in DOMAIN entries})
        IN  [mean |-> Rat(sum, count),
             dayMean |-> IF Len(entries) > 0 /\ uniqueDays > 0
                         THEN Rat(sum, uniqueDays) ELSE RatOf(0),
             sum |-> RatOf(sum),
             count |-> RatOf(count),
             min |-> RatOf(At(sortedValues, 0)),
             q1 |-> getQuantile(sortedValues, Rat(1, 4)),
             median |-> getQuantile(sortedValues, Rat(1, 2)),
             q3 |-> getQuantile(sortedValues, Rat(3, 4)),
             max |-> RatOf(At(sortedValues, Len(sortedValues) - 1)),
             first |-> IF Len(originalOrder) > 0 THEN RatOf(At(originalOrder, 0))
                       ELSE RatOf(At(sortedValues, 0)),
             last |-> IF Len(originalOrder) > 0
                      THEN RatOf(At(originalOrder, Len(originalOrder) - 1))
                      ELSE RatOf(At(sortedValues, Len(sortedValues) - 1))]

\* calculateStats(sortedValues, originalOrder), entries defaulting to []
calculateStats2(sortedValues, originalOrder) ==
    calculateStats(sortedValues, originalOrder, <<>>)

\* JavaScript truthiness of a label or an id, which are strings: the empty
\* string is falsy
Truthy(label) == label # <<>>

\* runningPoint labelled at the window's upper middle
runningPointUpperMiddle(values, labels, metric, windowSize, i) ==
    LET windowValues == Slice(values, i, i + windowSize)
        sortedWindowValues == SortAsc(windowValues)
        stats == calculateStats2(sortedWindowValues, windowValues)
        midIdx == i + (windowSize \div 2)
    IN  IF metric \in DOMAIN stats /\ Truthy(At(labels, midIdx))
        THEN <<[x |-> At(labels, midIdx), y |-> stats[metric]]>>
        ELSE <<>>

\* runningPoint pushing the value 0 for a metric that is no field
runningPointZeroForUnknown(values, labels, metric, windowSize, i) ==
    LET windowValues == Slice(values, i, i + windowSize)
        sortedWindowValues == SortAsc(windowValues)
        stats == calculateStats2(sortedWindowValues, windowValues)
        midIdx == i + ((windowSize - 1) \div 2)
    IN  IF Truthy(At(labels, midIdx))
        THEN <<[x |-> At(labels, midIdx),
                y |-> IF metric \in DOMAIN stats THEN stats[metric] ELSE RatOf(0)]>>
        ELSE <<>>

\* The point calculateRunningMetric pushes for window start i, if any.
runningPoint(values, labels, metric, windowSize, i) ==
    LET windowValues == Slice(values, i, i + windowSize)
        sortedWindowValues == SortAsc(windowValues)
        stats == calculateStats2(sortedWindowValues, windowValues)
        midIdx == i + ((windowSize - 1) \div 2)
    IN  IF metric \in DOMAIN stats /\ Truthy(At(labels, midIdx))
        THEN <<[x |-> At(labels, midIdx), y |-> stats[metric]]>>
        ELSE <<>>

RECURSIVE runningLoop(_, _, _, _, _)
\* the for loop of calculateRunningMetric, from window start i on
runningLoop(values, labels, metric, windowSize, i) ==
    IF i <= Len(values) - windowSize
    THEN runningPoint(values, labels, metric, windowSize, i)
             \o runningLoop(values, labels, metric, windowSize, i + 1)
    ELSE <<>>

\* calculateRunningMetric(values, labels, metric, windowSize)
calculateRunningMetric(values, labels, metric, windowSize) ==
    IF Len(values) = 0 \/ windowSize < 2 \/ Len(values) < windowSize
    THEN <<>>
    ELSE runningLoop(values, labels, metric, windowSize, 0)

-----------------------------------------------------------------------------
(* SpecStats and SpecRunning: the two functions applied to bounded inputs *)

RECURSIVE SeqsUpTo(_, _)
SeqsUpTo(S, n) ==
    IF n = 0 THEN {<<>>}
    ELSE LET shorter == SeqsUpTo(S, n - 1)
         IN  shorter \cup {Append(q, x) : q \in {r \in shorter : Len(r) = n - 1}, x \in S}

\* The value lists: every list of up to MaxLen values of 0..MaxValue, and
\* the lists of the documented examples.
ValueLists ==
    SeqsUpTo(0..MaxValue, MaxLen) \cup {<<10, 20, 30, 40>>, <<1, 2, 3, 4, 5>>}

\* Labels aligned with a list of n values: n distinct non-empty labels, of
\* one character each.
LabelsFor(n) == [i \in 1..n |-> <<100 + i>>]

\* Statistic ids, and one that is no StatsResult field.
MetricIds == StatIds \cup {"range"}

\* Nothing has been passed to the two functions and nothing returned.
StatsOff ==
    /\ inValues = <<>>
    /\ inLabels = <<>>
    /\ inMetric = ""
    /\ inWindow = 0
    /\ outStats = <<>>
    /\ outRunning = <<>>
    /\ statsPc = "off"
    /\ csArgs = <<>>

\* The arguments of calculateStats: the values, which the caller sorts.
StatsInit ==
    /\ inValues \in ValueLists
    /\ inLabels = <<>>
    /\ inMetric = ""
    /\ inWindow = 0
    /\ outStats = <<>>
    /\ outRunning = <<>>
    /\ statsPc = "input"
    /\ csArgs = <<>>

\* The arguments of calculateRunningMetric.
RunningInit ==
    /\ inValues \in ValueLists
    /\ inLabels = LabelsFor(Len(inValues))
    /\ inMetric \in MetricIds
    /\ inWindow \in 0..(MaxLen + 1)
    /\ outStats = <<>>
    /\ outRunning = <<>>
    /\ statsPc = "input"
    /\ csArgs = <<>>

\* const stats = calculateStats(sortedValues, values), as every caller
\* prepares its arguments
callCalculateStats ==
    /\ statsPc = "input"
    /\ outStats' = calculateStats2(SortAsc(inValues), inValues)
    /\ statsPc' = "stats"
    /\ UNCHANGED <<inValues, inLabels, inMetric, inWindow, outRunning, csArgs>>

callCalculateRunningMetric ==
    /\ statsPc = "input"
    /\ outRunning' = calculateRunningMetric(inValues, inLabels, inMetric, inWindow)
    /\ statsPc' = "running"
    /\ UNCHANGED <<inValues, inLabels, inMetric, inWindow, outStats, csArgs>>


-----------------------------------------------------------------------------
(* analytics.js: getPeriodData, filterEntriesByPeriod and the period       *)
(* filter of calculateLegacySummary.                                       *)

\* The key getPeriodData's forEach callback computes for an entry; the
\* empty string stands for the default branch, which leaves the callback.
periodKeyMondayWeek(entry, period) ==
    LET date == parseISO(entry.timestamp)
    IN  CASE period = "day" -> formatYMD(date)
          [] period = "week" -> formatYMD(startOfWeek(date, 1))
          [] period = "month" -> formatYMD(startOfMonth(date))
          [] period = "quarter" ->
                 formatYMD(newDate(date.year, (date.month \div 3) * 3, 1, 0, 0, 0))
          [] period = "year" -> formatYMD(startOfYear(date))
          [] OTHER -> <<>>

periodKey(entry, period) ==
    LET date == parseISO(entry.timestamp)
    IN  CASE period = "day" -> formatYMD(date)
          [] period = "week" -> formatYMD(startOfWeek(date, 0))
          [] period = "month" -> formatYMD(startOfMonth(date))
          [] period = "quarter" ->
                 formatYMD(newDate(date.year, (date.month \div 3) * 3, 1, 0, 0, 0))
          [] period = "year" -> formatYMD(startOfYear(date))
          [] OTHER -> <<>>

\* A faulty push: the entry takes the place of the bucket's earlier ones.
groupsPushReplacing(groups, key, entry) ==
    IF \E g \in DOMAIN groups : groups[g].key = key
    THEN [g \in DOMAIN groups |->
              IF groups[g].key = key
              THEN [key |-> key, entries |-> <<entry>>]
              ELSE groups[g]]
    ELSE Append(groups, [key |-> key, entries |-> <<entry>>])

\* groups: the object's properties in insertion order, each a key and the
\* entries pushed under it.
groupsPush(groups, key, entry) ==
    IF \E g \in DOMAIN groups : groups[g].key = key
    THEN [g \in DOMAIN groups |->
              IF groups[g].key = key
              THEN [key |-> key, entries |-> Append(groups[g].entries, entry)]
              ELSE groups[g]]
    ELSE Append(groups, [key |-> key, entries |-> <<entry>>])

RECURSIVE groupEntries(_, _, _)
\* entries.forEach(entry => ...) of getPeriodData
groupEntries(entries, period, groups) ==
    IF entries = <<>> THEN groups
    ELSE LET key == periodKey(Head(entries), period)
         IN  groupEntries(Tail(entries), period,
                          IF key = <<>> THEN groups
                          ELSE groupsPush(groups, key, Head(entries)))

RECURSIVE stringLess(_, _)
\* a < b on strings: by code units, a proper prefix first
stringLess(a, b) ==
    IF b = <<>> THEN FALSE
    ELSE IF a = <<>> THEN TRUE
    ELSE IF Head(a) # Head(b) THEN Head(a) < Head(b)
    ELSE stringLess(Tail(a), Tail(b))

RECURSIVE insertString(_, _)
insertString(x, arr) ==
    IF arr = <<>> THEN <<x>>
    ELSE IF stringLess(x, Head(arr)) THEN <<x>> \o arr
    ELSE <<Head(arr)>> \o insertString(x, Tail(arr))

RECURSIVE sortStrings(_)
sortStrings(arr) ==
    IF arr = <<>> THEN <<>>
    ELSE insertString(arr[Len(arr)], sortStrings(SubSeq(arr, 1, Len(arr) - 1)))

\* Object.keys(groups) left in insertion order
sortedKeysUnsorted(groups) == [g \in DOMAIN groups |-> groups[g].key]

\* Object.keys(groups).sort()
sortedKeys(groups) == sortStrings([g \in DOMAIN groups |-> groups[g].key])

\* The statistics getPeriodData computes for the group of a key.
groupStats(groups, key) ==
    LET g == CHOOSE g \in DOMAIN groups : groups[g].key = key
        groupEntriesOfKey == groups[g].entries
        rawValues == [i \in DOMAIN groupEntriesOfKey |-> groupEntriesOfKey[i].value]
        sortedValues == SortAsc(rawValues)
    IN  calculateStats(sortedValues, rawValues, groupEntriesOfKey)

\* getPeriodData(entries, period); datasets has no property until the first
\* group's statistics are pushed.
getPeriodData(entries, period) ==
    IF period = "none" \/ Len(entries) = 0
    THEN [labels |-> <<>>, datasets |-> <<>>]
    ELSE
        LET groups == groupEntries(entries, period, <<>>)
            keys == sortedKeys(groups)
            statKeys == IF keys = <<>> THEN {} ELSE StatIds
        IN  [labels |-> keys,
             datasets |-> [statKey \in statKeys |->
                              [i \in DOMAIN keys |-> groupStats(groups, keys[i])[statKey]]]]

\* arr.filter(e => parseISO(e.timestamp) >= cutoff)
entriesSince(entries, cutoff) ==
    LET notBefore(e) == dateGeq(parseISO(e.timestamp), cutoff)
    IN  SelectSeq(entries, notBefore)

\* filterEntriesByPeriod(entries, period, customDays), now being new Date()
filterEntriesByPeriod(entries, period, customDays, now) ==
    IF period = "all" \/ Len(entries) = 0 THEN entries
    ELSE CASE period = "today" -> entriesSince(entries, startOfDay(now))
           [] period = "week" -> entriesSince(entries, startOfWeek(now, 0))
           [] period = "month" -> entriesSince(entries, startOfMonth(now))
           [] period = "quarter" ->
                  entriesSince(entries,
                               newDate(now.year, (now.month \div 3) * 3, 1, 0, 0, 0))
           [] period = "year" -> entriesSince(entries, startOfYear(now))
           [] period = "custom" -> entriesSince(entries, subDays(now, customDays))
           [] OTHER -> entries

\* filterByRange with months of thirty days
filterByRangeThirtyDayMonths(entries, range, customDays, now) ==
    IF range = "all" \/ Len(entries) = 0 THEN entries
    ELSE CASE range = "day" -> entriesSince(entries, subDays(now, 1))
           [] range = "week" -> entriesSince(entries, subDays(now, 7))
           [] range = "month" -> entriesSince(entries, subDays(now, 30))
           [] range = "quarter" -> entriesSince(entries, subDays(now, 90))
           [] range = "year" -> entriesSince(entries, subDays(now, 365))
           [] range = "custom" -> entriesSince(entries, subDays(now, customDays))
           [] OTHER -> entries

\* filterByRange(entries, range, customDays), now being new Date()
filterByRange(entries, range, customDays, now) ==
    IF range = "all" \/ Len(entries) = 0 THEN entries
    ELSE CASE range = "day" -> entriesSince(entries, subDays(now, 1))
           [] range = "week" -> entriesSince(entries, subDays(now, 7))
           [] range = "month" -> entriesSince(entries, subMonths(now, 1))
           [] range = "quarter" -> entriesSince(entries, subMonths(now, 3))
           [] range = "year" -> entriesSince(entries, subYears(now, 1))
           [] range = "custom" -> entriesSince(entries, subDays(now, customDays))
           [] OTHER -> entries

\* filteredEntries of calculateLegacySummary for config.period, now being
\* new Date()
legacyFilteredEntries(entries, period, now) ==
    IF period = "all" THEN entries
    ELSE CASE period = "day" -> entriesSince(entries, startOfDay(now))
           [] period = "week" -> entriesSince(entries, startOfWeek(now, 0))
           [] period = "month" -> entriesSince(entries, startOfMonth(now))
           [] period = "quarter" ->
                  entriesSince(entries,
                               newDate(now.year, (now.month \div 3) * 3, 1, 0, 0, 0))
           [] period = "year" -> entriesSince(entries, startOfYear(now))
           [] OTHER -> entriesSince(entries, startOfDay(now))

-----------------------------------------------------------------------------
(* SpecPeriod: the period functions applied to bounded inputs *)

\* Timestamps as the application writes them (getFormattedISO), around a
\* year end, a leap day and a quarter end, and one date without a time.
TimestampValues ==
    {getFormattedISO(newDate(2023, 11, 30, 23, 59, 59)),
     getFormattedISO(newDate(2023, 11, 31, 0, 0, 0)),
     formatYMD(newDate(2024, 0, 1, 0, 0, 0)),
     getFormattedISO(newDate(2024, 1, 29, 12, 0, 0)),
     getFormattedISO(newDate(2024, 2, 31, 18, 30, 0)),
     getFormattedISO(newDate(2024, 3, 1, 8, 5, 0))}

EntryValues == {10, 20}

Entries == [timestamp : TimestampValues, value : EntryValues]

\* The entries of the documented example.
ExampleEntries ==
    <<[timestamp |-> formatYMD(newDate(2024, 0, 1, 0, 0, 0)), value |-> 10],
      [timestamp |-> formatYMD(newDate(2024, 0, 2, 0, 0, 0)), value |-> 20],
      [timestamp |-> formatYMD(newDate(2024, 0, 3, 0, 0, 0)), value |-> 30]>>

EntryLists == SeqsUpTo(Entries, MaxEntries) \cup {ExampleEntries}

BucketPeriods == {"day", "week", "month", "quarter", "year"}

\* Every period one of the three functions branches on, and one none knows.
PeriodValues == BucketPeriods \cup {"none", "all", "today", "custom", "hour"}

\* Clock readings: a Wednesday noon and a Sunday morning.
NowValues == {newDate(2024, 0, 3, 12, 0, 0), newDate(2024, 2, 31, 9, 0, 0)}

\* customDays as filterEntriesByPeriod's default leaves it
DefaultCustomDays == 30

\* Nothing has been passed to the period functions and nothing returned.
PeriodOff ==
    /\ pdEntries = <<>>
    /\ pdPeriod = ""
    /\ pdNow = <<>>
    /\ outPeriod = <<>>
    /\ outFiltered = <<>>
    /\ outLegacy = <<>>
    /\ outRange = <<>>
    /\ periodPc = "off"

PeriodInit ==
    /\ pdEntries \in EntryLists
    /\ pdPeriod \in PeriodValues
    /\ pdNow \in NowValues
    /\ outPeriod = <<>>
    /\ outFiltered = <<>>
    /\ outLegacy = <<>>
    /\ outRange = <<>>
    /\ periodPc = "input"

callGetPeriodData ==
    /\ periodPc = "input"
    /\ outPeriod' = getPeriodData(pdEntries, pdPeriod)
    /\ periodPc' = "period"
    /\ UNCHANGED <<pdEntries, pdPeriod, pdNow, outFiltered, outLegacy, outRange>>

callFilterEntriesByPeriod ==
    /\ periodPc = "input"
    /\ outFiltered' = filterEntriesByPeriod(pdEntries, pdPeriod, DefaultCustomDays, pdNow)
    /\ periodPc' = "filter"
    /\ UNCHANGED <<pdEntries, pdPeriod, pdNow, outPeriod, outLegacy, outRange>>

callCalculateLegacySummary ==
    /\ periodPc = "input"
    /\ outLegacy' = legacyFilteredEntries(pdEntries, pdPeriod, pdNow)
    /\ periodPc' = "legacy"
    /\ UNCHANGED <<pdEntries, pdPeriod, pdNow, outPeriod, outFiltered, outRange>>

\* The customDays a caller passes: none left, two days, the default.
CustomDaysValues == {0, 2, DefaultCustomDays}

callFilterByRange ==
    /\ periodPc = "input"
    /\ \E customDays \in CustomDaysValues :
           outRange' = [customDays |-> customDays,
                        entries |-> filterByRange(pdEntries, pdPeriod, customDays, pdNow)]
    /\ periodPc' = "range"
    /\ UNCHANGED <<pdEntries, pdPeriod, pdNow, outPeriod, outFiltered, outLegacy>>

-----------------------------------------------------------------------------
(* SpecStatsArgs: calculateStats called with each of its three arguments   *)
(* chosen freely                                                           *)

\* Ascending value lists, as sortedValues.
AscendingLists ==
    {l \in SeqsUpTo(0..MaxValue, MaxLen) : \A i \in 1..(Len(l) - 1) : l[i] <= l[i + 1]}

OriginalOrders == SeqsUpTo(0..MaxValue, MaxOriginal)

\* Entries on two days, one written with a time and one without.
StatsEntryLists ==
    SeqsUpTo({e \in Entries :
                  /\ e.value = 10
                  /\ e.timestamp \in {getFormattedISO(newDate(2023, 11, 31, 0, 0, 0)),
                                      formatYMD(newDate(2024, 0, 1, 0, 0, 0))}},
             MaxOriginal)

\* given is FALSE when sortedValues is null or undefined.
StatsArgs ==
    [given : {TRUE}, sortedValues : AscendingLists, originalOrder : OriginalOrders,
     entries : StatsEntryLists]
    \cup [given : {FALSE}, sortedValues : {<<>>}, originalOrder : OriginalOrders,
          entries : StatsEntryLists]

\* calculateStats(sortedValues, originalOrder, entries), sortedValues
\* possibly missing
calculateStatsOf(args) ==
    IF ~args.given THEN ZeroStats
    ELSE calculateStats(args.sortedValues, args.originalOrder, args.entries)

StatsArgsInit ==
    /\ inValues = <<>>
    /\ inLabels = <<>>
    /\ inMetric = ""
    /\ inWindow = 0
    /\ outStats = <<>>
    /\ outRunning = <<>>
    /\ statsPc = "input"
    /\ csArgs \in StatsArgs

callCalculateStatsWith ==
    /\ statsPc = "input"
    /\ csArgs # <<>>
    /\ outStats' = calculateStatsOf(csArgs)
    /\ statsPc' = "called"
    /\ UNCHANGED <<inValues, inLabels, inMetric, inWindow, outRunning, csArgs>>

-----------------------------------------------------------------------------
(* calendar.js (chart utilities): createXScale.  An instant is a whole     *)
(* number of hours of local time since 1970-01-01 00:00; a point's x is    *)
(* such a number, which parseDate returns as it is.                        *)

\* 24 * 60 * 60 * 1000 milliseconds, in hours
HoursPerDay == 24

\* Math.min(...xValues), Math.max(...xValues)
SeqMin(arr) == CHOOSE v \in {arr[i] : i \in DOMAIN arr} : \A i \in DOMAIN arr : v <= arr[i]
SeqMax(arr) == CHOOSE v \in {arr[i] : i \in DOMAIN arr} : \A i \in DOMAIN arr : v >= arr[i]

\* new Date(year, month, 1).getTime(), month 0..11
firstOfMonthTime(year, month) == DaysFromCivil(year, month + 1, 1) * HoursPerDay

RECURSIVE monthlyTicksFrom(_, _, _)
\* the while loop of generateMonthlyTickDates, currentDate being the first
\* of month (0..11) of year
monthlyTicksFrom(year, month, endDate) ==
    IF firstOfMonthTime(year, month) <= endDate
    THEN <<firstOfMonthTime(year, month)>>
             \o monthlyTicksFrom(IF month = 11 THEN year + 1 ELSE year,
                                 IF month = 11 THEN 0 ELSE month + 1, endDate)
    ELSE <<>>

\* generateMonthlyTickDates(minDate, maxDate)
generateMonthlyTickDates(minDate, maxDate) ==
    LET startDate == CivilFromDays(minDate \div HoursPerDay)
    IN  monthlyTicksFrom(startDate.year, startDate.month - 1, maxDate)

\* createXScale generating monthly ticks from a span of 90 days on
createXScaleTicksFromNinety(points, chartWidth, viewDays, panOffsetDays) ==
    LET minX == SeqMin(points)
        maxX == SeqMax(points)
        visibleRangeMs == viewDays * HoursPerDay
        panOffsetMs == panOffsetDays * HoursPerDay
        pannedMaxX == maxX - panOffsetMs
        pannedMinX == Max(minX, pannedMaxX - visibleRangeMs)
        visibleMinX == IF viewDays > 0
                       THEN (IF pannedMinX < minX THEN minX ELSE pannedMinX)
                       ELSE minX
        visibleMaxX == IF viewDays > 0
                       THEN (IF pannedMinX < minX
                             THEN Min(maxX, minX + visibleRangeMs)
                             ELSE pannedMaxX)
                       ELSE maxX
        \* dateRangeDays > 90 && dateRangeDays <= 365
        monthly == /\ visibleMaxX - visibleMinX >= 90 * HoursPerDay
                   /\ visibleMaxX - visibleMinX <= 365 * HoursPerDay
    IN  [visibleMinX |-> visibleMinX,
         visibleMaxX |-> visibleMaxX,
         tickDates |-> IF monthly
                       THEN generateMonthlyTickDates(visibleMinX, visibleMaxX)
                       ELSE <<>>,
         chartWidth |-> chartWidth]

\* createXScale(points, chartWidth, viewDays, panOffset): what the returned
\* function closes over; panOffsetDays is the panOffset argument
createXScale(points, chartWidth, viewDays, panOffsetDays) ==
    LET minX == SeqMin(points)
        maxX == SeqMax(points)
        visibleRangeMs == viewDays * HoursPerDay
        panOffsetMs == panOffsetDays * HoursPerDay
        pannedMaxX == maxX - panOffsetMs
        pannedMinX == Max(minX, pannedMaxX - visibleRangeMs)
        visibleMinX == IF viewDays > 0
                       THEN (IF pannedMinX < minX THEN minX ELSE pannedMinX)
                       ELSE minX
        visibleMaxX == IF viewDays > 0
                       THEN (IF pannedMinX < minX
                             THEN Min(maxX, minX + visibleRangeMs)
                             ELSE pannedMaxX)
                       ELSE maxX
        \* dateRangeDays > 90 && dateRangeDays <= 365
        monthly == /\ visibleMaxX - visibleMinX > 90 * HoursPerDay
                   /\ visibleMaxX - visibleMinX <= 365 * HoursPerDay
    IN  [visibleMinX |-> visibleMinX,
         visibleMaxX |-> visibleMaxX,
         tickDates |-> IF monthly
                       THEN generateMonthlyTickDates(visibleMinX, visibleMaxX)
                       ELSE <<>>,
         chartWidth |-> chartWidth]

\* n / d as JavaScript divides: a fraction, or with d = 0 an infinity
\* (n = 1 or -1) or NaN (n = 0).
Divide(n, d) ==
    IF d = 0 THEN [n |-> IF n > 0 THEN 1 ELSE IF n < 0 THEN -1 ELSE 0, d |-> 0]
    ELSE Rat(n, d)

\* tickDates.find(tick => Math.abs(tick - x) < tolerance), 0 standing for
\* undefined and for a tick at the epoch alike, since both are falsy
matchingTick(tickDates, x) ==
    LET tolerance == 2 * HoursPerDay
        hits == {i \in DOMAIN tickDates : Abs(tickDates[i] - x) < tolerance}
    IN  IF hits = {} THEN 0
        ELSE tickDates[CHOOSE i \in hits : \A j \in hits : i <= j]

\* The function createXScale returns, applied to date.
xScaleAt(scale, date) ==
    LET found == IF Len(scale.tickDates) > 0 THEN matchingTick(scale.tickDates, date) ELSE 0
        x == IF found # 0 THEN found ELSE date
    IN  Divide((x - scale.visibleMinX) * scale.chartWidth,
               scale.visibleMaxX - scale.visibleMinX)

-----------------------------------------------------------------------------
(* SpecXScale: createXScale applied to bounded inputs *)

\* Points from 2024-01-15 00:00 or 2023-11-20 06:00 on, over spans around
\* the 90 and 365 day limits.
XStartValues == {DaysFromCivil(2024, 1, 15) * HoursPerDay,
                 DaysFromCivil(2023, 11, 20) * HoursPerDay + 6}
XSpanDays == {0, 10, 90, 91, 200, 365, 366}
XPointLists == {<<start + span * HoursPerDay, start>> : start \in XStartValues, span \in XSpanDays}

XScaleArgs ==
    [points : XPointLists, chartWidth : {300}, viewDays : {0, 5, 120, 400},
     panOffset : {0, 8, 100, 380}]

ScaleOff ==
    /\ xsArgs = <<>>
    /\ xScale = <<>>
    /\ ysArgs = <<>>
    /\ yScale = <<>>

XScaleInit ==
    /\ xsArgs \in XScaleArgs
    /\ xScale = <<>>
    /\ ysArgs = <<>>
    /\ yScale = <<>>

callCreateXScale ==
    /\ xsArgs # <<>>
    /\ xScale = <<>>
    /\ xScale' = createXScale(xsArgs.points, xsArgs.chartWidth, xsArgs.viewDays,
                              xsArgs.panOffset)
    /\ UNCHANGED <<xsArgs, ysArgs, yScale>>

-----------------------------------------------------------------------------
(* generateYValues and createYScale (src/calendar.js).  Values are exact   *)
(* fractions; Math.log10 is kept to three decimals, in units of 1/LogUnit. *)

\* The largest list of points.
MaxPoints == 2

RatDiv(a, b) == Rat(a.n * b.d, a.d * b.n)
\* Math.ceil
RatCeil(a) == -((-a.n) \div a.d)

LogUnit == 1000
\* Math.log10 of 1..10, in 1/LogUnit
LogOfDigit == <<0, 301, 477, 602, 699, 778, 845, 903, 954, 1000>>

\* Math.pow(10, k)
Pow10(k) == IF k >= 0 THEN RatOf(10 ^ k) ELSE Rat(1, 10 ^ (-k))

\* The exponents Math.log10 takes on the values of the model.
Exponents == -4..5

\* Math.floor(Math.log10(x)) and Math.ceil(Math.log10(x)), x > 0
floorLog10(x) == CHOOSE k \in Exponents : RatLe(Pow10(k), x) /\ RatLt(x, Pow10(k + 1))
ceilLog10(x) == CHOOSE k \in Exponents : RatLt(Pow10(k - 1), x) /\ RatLe(x, Pow10(k))

\* Math.log10(x), x > 0, in 1/LogUnit: the exponent plus the logarithm of
\* the mantissa, read from LogOfDigit and interpolated between whole digits
log10(x) ==
    LET k == floorLog10(x)
        mantissa == RatDiv(x, Pow10(k))
        digit == RatFloor(mantissa)
        part == RatMul(RatSub(mantissa, RatOf(digit)),
                       RatOf(LogOfDigit[digit + 1] - LogOfDigit[digit]))
    IN  k * LogUnit + LogOfDigit[digit] + RatFloor(part)

\* Math.min(...values), Math.max(...values) of fractions
RatSeqMin(arr) == CHOOSE v \in {arr[i] : i \in DOMAIN arr} : \A i \in DOMAIN arr : RatLe(v, arr[i])
RatSeqMax(arr) == CHOOSE v \in {arr[i] : i \in DOMAIN arr} : \A i \in DOMAIN arr : RatLe(arr[i], v)

RECURSIVE sortedSet(_)
\* [...new Set(ticks)].sort((a, b) => a - b)
sortedSet(S) ==
    IF S = {} THEN <<>>
    ELSE LET least == CHOOSE v \in S : \A w \in S : RatLe(v, w)
         IN  <<least>> \o sortedSet(S \ {least})

\* minVal and maxVal of generateYValues, after the widening of equal extremes
widenedMin(values) ==
    LET minVal == SeqMin(values)
    IN  IF minVal = SeqMax(values)
        THEN (IF minVal > 0 THEN Rat(minVal * 9, 10) ELSE RatOf(minVal - 1))
        ELSE RatOf(minVal)
widenedMax(values) ==
    LET maxVal == SeqMax(values)
    IN  IF SeqMin(values) = maxVal
        THEN (IF maxVal > 0 THEN Rat(maxVal * 11, 10) ELSE RatOf(maxVal + 1))
        ELSE RatOf(maxVal)

multiples == <<1, 2, 5, 10>>

RECURSIVE logTicksFromBelowMax(_, _, _, _, _, _)
\* the loops of the log branch keeping only values below maxVal
logTicksFromBelowMax(d, i, ticks, logMin, lastDecade, maxVal) ==
    IF d > lastDecade THEN ticks
    ELSE LET val == RatMul(Pow10(d), RatOf(multiples[i]))
             prevMultipleValue == IF Len(ticks) > 0 THEN ticks[Len(ticks)] ELSE RatOf(0)
             pushed == IF RatLe(Pow10(logMin), val) /\ RatLt(val, maxVal)
                       THEN Append(ticks, val)
                       ELSE ticks
         IN  IF i < Len(multiples)
             THEN logTicksFromBelowMax(d, i + 1, pushed, logMin, lastDecade, maxVal)
             ELSE logTicksFromBelowMax(d + 1, 1, pushed, logMin, lastDecade, maxVal)

RECURSIVE logTicksFrom(_, _, _, _, _, _)
\* the loops of the log branch: decade d, multiple number i, ticks so far
logTicksFrom(d, i, ticks, logMin, lastDecade, maxVal) ==
    IF d > lastDecade THEN ticks
    ELSE LET val == RatMul(Pow10(d), RatOf(multiples[i]))
             prevMultipleValue == IF Len(ticks) > 0 THEN ticks[Len(ticks)] ELSE RatOf(0)
             pushed == IF RatLe(Pow10(logMin), val) /\ RatLt(prevMultipleValue, maxVal)
                       THEN Append(ticks, val)
                       ELSE ticks
         IN  IF i < Len(multiples)
             THEN logTicksFrom(d, i + 1, pushed, logMin, lastDecade, maxVal)
             ELSE logTicksFrom(d + 1, 1, pushed, logMin, lastDecade, maxVal)

RECURSIVE linearTicksFrom(_, _, _)
\* for (let v = graphMin; v <= graphMax + niceStep * 0.0001; v += niceStep)
linearTicksFrom(v, limit, niceStep) ==
    IF RatLe(v, limit)
    THEN <<v>> \o linearTicksFrom(RatAdd(v, niceStep), limit, niceStep)
    ELSE <<>>

\* generateYValues rounding graphMax down
generateYValuesFloorMax(values, count, logScale) ==
    IF Len(values) = 0 THEN [i \in 1..count |-> RatOf(0)]
    ELSE
    LET minVal == widenedMin(values)
        maxVal == widenedMax(values)
    IN  IF logScale /\ minVal.n > 0
        THEN LET logMin == floorLog10(minVal)
                 ticks == logTicksFrom(logMin, 1, <<>>, logMin, ceilLog10(maxVal) - 1, maxVal)
             IN  sortedSet({ticks[i] : i \in DOMAIN ticks})
        ELSE LET rawStep == RatDiv(RatSub(maxVal, minVal), RatOf(count - 1))
                 magnitude == Pow10(floorLog10(rawStep))
                 res == RatDiv(rawStep, magnitude)
                 niceStep == RatMul(RatOf(IF RatLt(res, Rat(3, 2)) THEN 1
                                          ELSE IF RatLt(res, RatOf(3)) THEN 2
                                          ELSE IF RatLt(res, RatOf(7)) THEN 5
                                          ELSE 10),
                                    magnitude)
                 graphMin == RatMul(RatOf(RatFloor(RatDiv(minVal, niceStep))), niceStep)
                 graphMax == RatMul(RatOf(RatFloor(RatDiv(maxVal, niceStep))), niceStep)
             IN  linearTicksFrom(graphMin,
                                 RatAdd(graphMax, RatMul(niceStep, Rat(1, 10000))),
                                 niceStep)

\* generateYValues(values, count, logScale)
generateYValues(values, count, logScale) ==
    IF Len(values) = 0 THEN [i \in 1..count |-> RatOf(0)]
    ELSE
    LET minVal == widenedMin(values)
        maxVal == widenedMax(values)
    IN  IF logScale /\ minVal.n > 0
        THEN LET logMin == floorLog10(minVal)
                 ticks == logTicksFrom(logMin, 1, <<>>, logMin, ceilLog10(maxVal) - 1, maxVal)
             IN  sortedSet({ticks[i] : i \in DOMAIN ticks})
        ELSE LET rawStep == RatDiv(RatSub(maxVal, minVal), RatOf(count - 1))
                 magnitude == Pow10(floorLog10(rawStep))
                 res == RatDiv(rawStep, magnitude)
                 niceStep == RatMul(RatOf(IF RatLt(res, Rat(3, 2)) THEN 1
                                          ELSE IF RatLt(res, RatOf(3)) THEN 2
                                          ELSE IF RatLt(res, RatOf(7)) THEN 5
                                          ELSE 10),
                                    magnitude)
                 graphMin == RatMul(RatOf(RatFloor(RatDiv(minVal, niceStep))), niceStep)
                 graphMax == RatMul(RatOf(RatCeil(RatDiv(maxVal, niceStep))), niceStep)
             IN  linearTicksFrom(graphMin,
                                 RatAdd(graphMax, RatMul(niceStep, Rat(1, 10000))),
                                 niceStep)

\* The count createYScale asks generateYValues for.
YTickCount == 6

\* createYScale taking the extremes of the data
createYScaleFromData(points, chartHeight, logScale) ==
    LET minY == IF Len(points) = 0 THEN RatOf(0) ELSE RatOf(SeqMin(points))
        maxY == IF Len(points) = 0 THEN RatOf(0) ELSE RatOf(SeqMax(points))
    IN  IF minY = maxY
        THEN [kind |-> "constant", minY |-> minY, maxY |-> maxY, chartHeight |-> chartHeight]
        ELSE IF logScale /\ minY.n > 0
        THEN [kind |-> "log", minY |-> RatOf(log10(minY)), maxY |-> RatOf(log10(maxY)),
              chartHeight |-> chartHeight]
        ELSE [kind |-> "linear", minY |-> minY, maxY |-> maxY, chartHeight |-> chartHeight]

\* createYScale(points, chartHeight, logScale), points given by their y: the
\* branch whose function is returned and what that function closes over
\* (minY and maxY are logarithms, in 1/LogUnit, in the log branch)
createYScale(points, chartHeight, logScale) ==
    LET displayYValues == generateYValues(points, YTickCount, logScale)
        minY == RatSeqMin(displayYValues)
        maxY == RatSeqMax(displayYValues)
    IN  IF minY = maxY
        THEN [kind |-> "constant", minY |-> minY, maxY |-> maxY, chartHeight |-> chartHeight]
        ELSE IF logScale /\ minY.n > 0
        THEN [kind |-> "log", minY |-> RatOf(log10(minY)), maxY |-> RatOf(log10(maxY)),
              chartHeight |-> chartHeight]
        ELSE [kind |-> "linear", minY |-> minY, maxY |-> maxY, chartHeight |-> chartHeight]

\* the returned function sending non-positive inputs to the far edge in
\* every branch
yScaleAtFarEdge(scale, y) ==
    LET chartHeight == RatOf(scale.chartHeight)
        \* chartHeight - ((v - minY) / (maxY - minY)) * chartHeight
        inverted(v) ==
            RatSub(chartHeight,
                   RatMul(RatDiv(RatSub(v, scale.minY), RatSub(scale.maxY, scale.minY)),
                          chartHeight))
    IN  IF scale.kind = "constant" THEN Rat(scale.chartHeight, 2)
        ELSE IF scale.kind = "log"
        THEN (IF y.n <= 0 THEN chartHeight ELSE inverted(RatOf(log10(y))))
        ELSE (IF y.n <= 0 THEN chartHeight ELSE inverted(y))

\* the returned function without the vertical inversion
yScaleAtUpright(scale, y) ==
    LET chartHeight == RatOf(scale.chartHeight)
        \* ((v - minY) / (maxY - minY)) * chartHeight
        inverted(v) ==
            RatMul(RatDiv(RatSub(v, scale.minY), RatSub(scale.maxY, scale.minY)),
                   chartHeight)
    IN  IF scale.kind = "constant" THEN Rat(scale.chartHeight, 2)
        ELSE IF scale.kind = "log"
        THEN (IF y.n <= 0 THEN chartHeight ELSE inverted(RatOf(log10(y))))
        ELSE inverted(y)

\* The function createYScale returns, applied to y.
yScaleAt(scale, y) ==
    LET chartHeight == RatOf(scale.chartHeight)
        \* chartHeight - ((v - minY) / (maxY - minY)) * chartHeight
        inverted(v) ==
            RatSub(chartHeight,
                   RatMul(RatDiv(RatSub(v, scale.minY), RatSub(scale.maxY, scale.minY)),
                          chartHeight))
    IN  IF scale.kind = "constant" THEN Rat(scale.chartHeight, 2)
        ELSE IF scale.kind = "log"
        THEN (IF y.n <= 0 THEN chartHeight ELSE inverted(RatOf(log10(y))))
        ELSE inverted(y)

-----------------------------------------------------------------------------
(* SpecYScale: generateYValues and createYScale applied to bounded inputs *)

YValues == {-5, 0, 1, 3, 20, 30, 100}
YPointLists == SeqsUpTo(YValues, MaxPoints)

YScaleArgs ==
    [points : YPointLists, chartHeight : {100}, logScale : BOOLEAN, count : {4, YTickCount}]

YScaleInit ==
    /\ ysArgs \in YScaleArgs
    /\ yScale = <<>>
    /\ xsArgs = <<>>
    /\ xScale = <<>>

callCreateYScale ==
    /\ ysArgs # <<>>
    /\ yScale = <<>>
    /\ yScale' = [ticks |-> generateYValues(ysArgs.points, ysArgs.count, ysArgs.logScale),
                  scale |-> createYScale(ysArgs.points, ysArgs.chartHeight, ysArgs.logScale)]
    /\ UNCHANGED <<ysArgs, xsArgs, xScale>>

-----------------------------------------------------------------------------
(* generateSmoothPath (src/calendar.js) and the line ChronosChart draws for *)
(* one dataset (src/chronos-chart.js).  A path is the sequence of its       *)
(* commands: M and L with their point, C with two control points and its    *)
(* end point.                                                               *)

\* The largest number of points of a dataset.
MaxPathPoints == 4

\* undefined, as an argument or a property that is missing
Undefined == [undefined |-> TRUE]
IsUndefined(v) == "undefined" \in DOMAIN v

\* a || b on numbers and undefined
OrElse(a, b) == IF IsUndefined(a) \/ a.n = 0 THEN b ELSE a

\* generateSmoothPath drawing curves for every tension
generateSmoothPathAlwaysCurved(points, xScaleFn, yScaleFn, paddingLeft, paddingTop, tensionArg) ==
    LET tension == IF IsUndefined(tensionArg) THEN Rat(2, 10) ELSE tensionArg
        px(i) == RatAdd(RatOf(paddingLeft), xScaleFn[points[i].x])
        py(i) == RatAdd(RatOf(paddingTop), yScaleFn[points[i].y])
        n == Len(points)
        sixth(a, b) == RatMul(RatDiv(RatSub(a, b), RatOf(6)), tension)
        curve(i) ==
            LET i0 == Max(1, i - 2)
                i3 == Min(n, i + 1)
            IN  [op |-> "C",
                 cp1x |-> RatAdd(px(i - 1), sixth(px(i), px(i0))),
                 cp1y |-> RatAdd(py(i - 1), sixth(py(i), py(i0))),
                 cp2x |-> RatSub(px(i), sixth(px(i3), px(i - 1))),
                 cp2y |-> RatSub(py(i), sixth(py(i3), py(i - 1))),
                 x |-> px(i), y |-> py(i)]
        line(i) == [op |-> "L", x |-> px(i), y |-> py(i)]
    IN  IF n < 2 THEN <<>>
        ELSE <<[op |-> "M", x |-> px(1), y |-> py(1)]>>
                 \o (IF n > 2
                     THEN [i \in 1..(n - 1) |-> curve(i + 1)]
                     ELSE [i \in 1..(n - 1) |-> line(i + 1)])

\* generateSmoothPath(points, xScale, yScale, paddingLeft, paddingTop,
\* tension = 0.2), xScaleFn and yScaleFn being its xScale and yScale,
\* as the functions they are; points
\* are indexed from 1, so points[Math.max(0, i - 2)]
\* of the source is points[Max(1, i - 2)] with i one higher
generateSmoothPath(points, xScaleFn, yScaleFn, paddingLeft, paddingTop, tensionArg) ==
    LET tension == IF IsUndefined(tensionArg) THEN Rat(2, 10) ELSE tensionArg
        px(i) == RatAdd(RatOf(paddingLeft), xScaleFn[points[i].x])
        py(i) == RatAdd(RatOf(paddingTop), yScaleFn[points[i].y])
        n == Len(points)
        sixth(a, b) == RatMul(RatDiv(RatSub(a, b), RatOf(6)), tension)
        curve(i) ==
            LET i0 == Max(1, i - 2)
                i3 == Min(n, i + 1)
            IN  [op |-> "C",
                 cp1x |-> RatAdd(px(i - 1), sixth(px(i), px(i0))),
                 cp1y |-> RatAdd(py(i - 1), sixth(py(i), py(i0))),
                 cp2x |-> RatSub(px(i), sixth(px(i3), px(i - 1))),
                 cp2y |-> RatSub(py(i), sixth(py(i3), py(i - 1))),
                 x |-> px(i), y |-> py(i)]
        line(i) == [op |-> "L", x |-> px(i), y |-> py(i)]
    IN  IF n < 2 THEN <<>>
        ELSE <<[op |-> "M", x |-> px(1), y |-> py(1)]>>
                 \o (IF tension.n > 0 /\ n > 2
                     THEN [i \in 1..(n - 1) |-> curve(i + 1)]
                     ELSE [i \in 1..(n - 1) |-> line(i + 1)])

\* The scales the paths of the model are drawn with: 10 pixels a day from
\* the left, 10 pixels a unit from the bottom of a chart 100 high.
pathXScale == [x \in 0..(MaxPathPoints + 1) |-> RatOf(10 * x)]
pathYScale == [y \in 0..10 |-> RatOf(100 - 10 * y)]

\* ChronosChart.drawLine, as the d attribute of the path element it appends;
\* NoPath when it appends none
NoPath == <<[op |-> "none"]>>
drawLine(points, paddingLeft, paddingTop, styleTension) ==
    IF Len(points) < 2 THEN NoPath
    ELSE generateSmoothPath(points, pathXScale, pathYScale, paddingLeft, paddingTop,
                            styleTension)

\* The body of the datasets.forEach of ChronosChart.updateChart for one
\* dataset whose points all pass the filter: the line it draws.
drawDataset(points, paddingLeft, paddingTop, datasetTension, optionsTension) ==
    IF Len(points) > 0
    THEN drawLine(points, paddingLeft, paddingTop, OrElse(datasetTension, optionsTension))
    ELSE NoPath

-----------------------------------------------------------------------------
(* SpecPath: generateSmoothPath and the dataset line on bounded inputs *)

RECURSIVE PathPointsOf(_)
\* Points at x = 1, 2, ... with y of 1, 3 or 8.
PathPointsOf(n) ==
    IF n = 0 THEN {<<>>}
    ELSE {Append(q, [x |-> n, y |-> y]) : q \in PathPointsOf(n - 1), y \in {1, 3, 8}}
PathPointLists == UNION {PathPointsOf(n) : n \in 0..MaxPathPoints}

TensionValues == {Undefined, RatOf(0), Rat(2, 10), Rat(1, 2), Rat(-1, 5)}

PathCalls ==
    [fn : {"path"}, points : PathPointLists, paddingLeft : {40}, paddingTop : {20},
     tension : TensionValues, optionsTension : {RatOf(0), Rat(2, 10)}]

CallOff ==
    /\ fnCall = <<>>
    /\ fnOut = <<>>

PathInit ==
    /\ fnCall \in PathCalls
    /\ fnOut = <<>>

callGenerateSmoothPath ==
    /\ fnCall # <<>>
    /\ fnCall.fn = "path"
    /\ fnOut = <<>>
    /\ fnOut' = [path |-> generateSmoothPath(fnCall.points, pathXScale, pathYScale,
                                              fnCall.paddingLeft, fnCall.paddingTop,
                                              fnCall.tension),
                 drawn |-> drawDataset(fnCall.points, fnCall.paddingLeft, fnCall.paddingTop,
                                       fnCall.tension, fnCall.optionsTension)]
    /\ UNCHANGED fnCall

-----------------------------------------------------------------------------
(* The rolling metric of the series chart, computed by calculateRunningMetric *)
(* in prepareChartDatasets (src/chart-config.js) and inline in                *)
(* SeriesChart.updateChart (src/unnamed/part_006), and the summary value of   *)
(* calculateSingleSummary (src/analytics.js).                                 *)

\* The largest list of entries given to the rolling metric.
MaxRollEntries == 3

\* null, as a return value
Null == [null |-> TRUE]

valuesOf(entries) == [i \in DOMAIN entries |-> entries[i].value]
timestampsOf(entries) == [i \in DOMAIN entries |-> entries[i].timestamp]

\* rId && win >= 2 && entries.length >= win; an id is a TLA+ string, "" the
\* missing one
rollingWanted(rId, win, length) == rId # "" /\ win >= 2 /\ length >= win

\* prepareChartDatasets, raw data mode: the data of the running metric line,
\* NoDataset when none is pushed
NoDataset == <<[dataset |-> "none"]>>
prepareRunningData(entries, rId, win) ==
    IF rollingWanted(rId, win, Len(entries))
    THEN calculateRunningMetric(valuesOf(entries), timestampsOf(entries), rId, win)
    ELSE NoDataset

\* stats[rId]: undefined for an id that is no field of stats
statOrUndefined(stats, rId) == IF rId \in DOMAIN stats THEN stats[rId] ELSE Undefined

\* SeriesChart.updateChart, raw data mode: the point pushed for window
\* start i
inlineRunningPoint(entries, rId, win, i) ==
    LET slice == Slice(entries, i, i + win)
        vals == SortAsc(valuesOf(slice))
        midIdx == i + ((win - 1) \div 2)
    IN  [x |-> At(entries, midIdx).timestamp,
         y |-> statOrUndefined(calculateStats(vals, <<>>, slice), rId)]

\* SeriesChart.updateChart, raw data mode: the data of the rolling dataset,
\* NoDataset when none is pushed
inlineRunningData(entries, rId, win) ==
    IF rollingWanted(rId, win, Len(entries))
    THEN [k \in 1..(Len(entries) - win + 1) |-> inlineRunningPoint(entries, rId, win, k - 1)]
    ELSE NoDataset

\* ' 12:00:00.000Z'
noonSuffix == <<32, 49, 50, 58, 48, 48, 58, 48, 48, 46, 48, 48, 48, 90>>

\* if (stats[rId] !== undefined) runningPoints.push({x, y: stats[rId]}): the
\* points one window adds, stats being calculateStats of its sorted slice
pushedPoint(stats, label, rId, period) ==
    IF rId \notin DOMAIN stats THEN <<>>
    ELSE <<[x |-> label \o (IF period = "day" THEN <<>> ELSE noonSuffix), y |-> stats[rId]]>>

\* SeriesChart.updateChart, aggregated mode: one window of the loop; an
\* empty slice is skipped, label is the label at the window's middle
periodRunningPoint(slice, label, rId, period) ==
    IF Len(slice) = 0 THEN <<>>
    ELSE pushedPoint(calculateStats(SortAsc(slice), <<>>, <<>>), label, rId, period)

RECURSIVE periodRunningLoop(_, _, _, _, _, _)
\* SeriesChart.updateChart, aggregated mode: the loop over the windows of
\* one metric's bucket values (none of them null)
periodRunningLoop(baseSource, labels, rId, win, period, i) ==
    IF i <= Len(baseSource) - win
    THEN periodRunningPoint(Slice(baseSource, i, i + win),
                            At(labels, i + ((win - 1) \div 2)), rId, period)
             \o periodRunningLoop(baseSource, labels, rId, win, period, i + 1)
    ELSE <<>>

\* A bucket statistic as the number the chart reads: a whole number when the
\* fraction is one
wholeOf(r) == r.n \div r.d

\* if (runningPoints.length > 0) datasets.push(...)
pushedDataset(points) == IF Len(points) > 0 THEN points ELSE NoDataset

\* SeriesChart.updateChart, aggregated mode: the rolling dataset of metric
\* mId over agg, the result of getPeriodData
periodRunningOf(agg, period, mId, rId, win) ==
    IF rollingWanted(rId, win, Len(agg.labels))
    THEN pushedDataset(periodRunningLoop(
                           [i \in DOMAIN agg.labels |-> wholeOf(agg.datasets[mId][i])],
                           agg.labels, rId, win, period, 0))
    ELSE NoDataset

\* SeriesChart.updateChart, aggregated mode, for the metric mId of the
\* analysis selection: the data of its rolling dataset
periodRunningData(entries, period, mId, rId, win) ==
    periodRunningOf(getPeriodData(entries, period), period, mId, rId, win)

\* operationLabels[operation] || operation
operationLabel(operation) ==
    CASE operation = "mean" -> "Avg"
      [] operation = "dayMean" -> "Daily Avg"
      [] operation = "sum" -> "Total"
      [] operation = "count" -> "Count"
      [] operation = "min" -> "Min"
      [] operation = "q1" -> "Q1"
      [] operation = "median" -> "Median"
      [] operation = "q3" -> "Q3"
      [] operation = "max" -> "Max"
      [] operation = "first" -> "First"
      [] operation = "last" -> "Last"
      [] OTHER -> operation

\* calculateSingleSummary: statValue, stats being calculateStats of the
\* filtered entries
statValueOf(stats, filteredEntries, operation) ==
    LET uniqueDays == Cardinality({dayKeyOf(filteredEntries[i]) : i \in DOMAIN filteredEntries})
    IN  IF operation = "dayMean"
        THEN (IF uniqueDays > 0 THEN RatDiv(stats.sum, RatOf(uniqueDays)) ELSE RatOf(0))
        ELSE IF operation \in DOMAIN stats THEN stats[operation]
        ELSE RatOf(0)

\* calculateSingleSummary from filteredEntries on: null without entries
summaryOf(filteredEntries, operation) ==
    IF Len(filteredEntries) = 0 THEN Null
    ELSE [operationLabel |-> operationLabel(operation),
          statValue |-> statValueOf(calculateStats(SortAsc(valuesOf(filteredEntries)),
                                                   valuesOf(filteredEntries),
                                                   filteredEntries),
                                    filteredEntries, operation)]

\* calculateSingleSummary(series, entries, formatDuration, summaryConfig):
\* null, or the label and the statValue of the string it returns
calculateSingleSummary(entries, period, operation, customDays, now) ==
    summaryOf(filterEntriesByPeriod(entries, period, customDays, now), operation)

\* calculateSeriesSummary(series, entries, formatDuration, summaryConfig)
\* with a summaryConfig
calculateSeriesSummary(entries, period, operation, customDays, now) ==
    IF Len(entries) = 0 THEN Null
    ELSE calculateSingleSummary(entries, period, operation, customDays, now)

-----------------------------------------------------------------------------
(* SpecRolling: the rolling metric and the summary on bounded inputs *)

RollEntries ==
    [timestamp : {getFormattedISO(newDate(2023, 11, 31, 0, 0, 0)),
                  getFormattedISO(newDate(2024, 1, 29, 12, 0, 0))},
     value : EntryValues]
RollEntryLists == SeqsUpTo(RollEntries, MaxRollEntries)

RollingCalls ==
    [fn : {"rolling"}, entries : RollEntryLists, rId : MetricIds, win : {2, 3},
     period : {"day", "month"}, mId : {"sum"}, now : {newDate(2024, 2, 31, 9, 0, 0)}]

RollingInit ==
    /\ fnCall \in RollingCalls
    /\ fnOut = <<>>

\* The rolling line of raw data, as prepareChartDatasets and as
\* SeriesChart.updateChart compute it
callRawRolling ==
    /\ fnCall # <<>>
    /\ fnCall.fn = "rolling"
    /\ fnOut = <<>>
    /\ fnOut' = [running |-> prepareRunningData(fnCall.entries, fnCall.rId, fnCall.win),
                 inline |-> inlineRunningData(fnCall.entries, fnCall.rId, fnCall.win)]
    /\ UNCHANGED fnCall

\* The rolling line of SeriesChart.updateChart in aggregated mode, on the
\* same entries
callPeriodRolling ==
    /\ fnCall # <<>>
    /\ fnCall.fn = "rolling"
    /\ fnOut # <<>>
    /\ DOMAIN fnOut = {"running", "inline"}
    /\ fnOut' = [running |-> fnOut.running,
                 inline |-> fnOut.inline,
                 periodRolling |-> periodRunningData(fnCall.entries, fnCall.period, fnCall.mId,
                                                     fnCall.rId, fnCall.win)]
    /\ UNCHANGED fnCall

\* calculateSeriesSummary on the same entries, the id as its operation
callSeriesSummary ==
    /\ fnCall # <<>>
    /\ fnCall.fn = "rolling"
    /\ fnOut # <<>>
    /\ DOMAIN fnOut = {"running", "inline", "periodRolling"}
    /\ fnOut' = [running |-> fnOut.running,
                 inline |-> fnOut.inline,
                 periodRolling |-> fnOut.periodRolling,
                 summary |-> calculateSeriesSummary(fnCall.entries, "all", fnCall.rId,
                                                    DefaultCustomDays, fnCall.now)]
    /\ UNCHANGED fnCall

-----------------------------------------------------------------------------
(* getVisibleDateRange (src/calendar.js) and the month bands of drawGrid   *)
(* (src/chronos-chart.js).  Instants are whole hours, a month is named by  *)
(* getMonth() + getFullYear() * 12.                                        *)

\* getVisibleDateRange(points, viewDays, panOffset); panOffsetDays is the
\* panOffset argument
getVisibleDateRange(points, viewDays, panOffsetDays) ==
    LET visibleRangeMs == viewDays * HoursPerDay
        panOffsetMs == panOffsetDays * HoursPerDay
    IN  IF viewDays > 0 /\ panOffsetDays # 0
        THEN [minDate |-> Max(SeqMin(points), SeqMax(points) - panOffsetMs - visibleRangeMs),
              maxDate |-> SeqMax(points) - panOffsetMs]
        ELSE IF viewDays > 0
        THEN [minDate |-> SeqMax(points) - viewDays * HoursPerDay,
              maxDate |-> SeqMax(points)]
        ELSE [minDate |-> SeqMin(points), maxDate |-> SeqMax(points)]

\* date.getMonth() + date.getFullYear() * 12
monthIndexOf(date) ==
    LET civil == CivilFromDays(date \div HoursPerDay)
    IN  (civil.month - 1) + civil.year * 12

\* xEnd - xStart > 0 as JavaScript evaluates it, either being a fraction,
\* an infinity or NaN
widthPositive(xStart, xEnd) ==
    IF xStart.d # 0 /\ xEnd.d # 0 THEN RatLt(xStart, xEnd)
    ELSE /\ ~(xStart.d = 0 /\ xStart.n = 0)
         /\ ~(xEnd.d = 0 /\ xEnd.n = 0)
         /\ \/ xEnd.d = 0 /\ xEnd.n = 1 /\ ~(xStart.d = 0 /\ xStart.n = 1)
            \/ xStart.d = 0 /\ xStart.n = -1 /\ ~(xEnd.d = 0 /\ xEnd.n = -1)

\* a <= b as JavaScript evaluates it, either being a fraction, an infinity or NaN
jsLe(a, b) ==
    IF a.d # 0 /\ b.d # 0 THEN RatLe(a, b)
    ELSE /\ ~(a.d = 0 /\ a.n = 0)
         /\ ~(b.d = 0 /\ b.n = 0)
         /\ \/ a.d = 0 /\ a.n = -1
            \/ b.d = 0 /\ b.n = 1

\* drawGrid's month bands: the months for which a shaded rectangle is
\* appended, when the visible range is over 60 and up to 310 days
shadedMonths(points, viewDays, panOffsetDays, chartWidth) ==
    LET range == getVisibleDateRange(points, viewDays, panOffsetDays)
        minDate == range.minDate
        maxDate == range.maxDate
        xScaleFn == createXScale(points, chartWidth, viewDays, panOffsetDays)
        globalMinDate == SeqMin(points)
        globalMaxDate == SeqMax(points)
        lastMonth == CivilFromDays(globalMaxDate \div HoursPerDay)
        globalMonthDates == generateMonthlyTickDates(
                                globalMinDate, firstOfMonthTime(lastMonth.year, lastMonth.month - 1))
        firstMonthIndex == monthIndexOf(globalMinDate)
        before == {i \in DOMAIN globalMonthDates : globalMonthDates[i] <= minDate}
        startMonthIndex == IF before = {} THEN 1
                           ELSE CHOOSE i \in before : \A j \in before : j <= i
        nextMonthStart(i) == IF i < Len(globalMonthDates) THEN globalMonthDates[i + 1]
                             ELSE globalMonthDates[i] + 31 * HoursPerDay
        visibleStart(i) == Max(globalMonthDates[i], minDate)
        visibleEnd(i) == Min(nextMonthStart(i), maxDate)
        \* padding.left is added to both and to both bounds they are compared with
        xStart(i) == xScaleAt(xScaleFn, visibleStart(i))
        xEnd(i) == xScaleAt(xScaleFn, visibleEnd(i))
        shouldShade(i) == (monthIndexOf(globalMonthDates[i]) - firstMonthIndex) % 2 = 0
        drawn(i) == /\ globalMonthDates[i] <= maxDate
                    /\ nextMonthStart(i) >= minDate
                    /\ shouldShade(i)
                    /\ visibleStart(i) < visibleEnd(i)
                    /\ widthPositive(xStart(i), xEnd(i))
                    /\ jsLe(xStart(i), RatOf(chartWidth))
                    /\ jsLe(RatOf(0), xEnd(i))
    IN  IF maxDate - minDate > 60 * HoursPerDay /\ maxDate - minDate <= 310 * HoursPerDay
        THEN {monthIndexOf(globalMonthDates[i]) :
                 i \in {j \in startMonthIndex..Len(globalMonthDates) : drawn(j)}}
        ELSE {}

\* Datasets from 2024-01-15 00:00 or 2023-11-20 06:00 on, 100 or 200 days
\* long or of one instant; view lengths around the limits of the month
\* bands; every pan offset the controller allows, in whole days.
GridSpanDays == {0, 100, 200}
GridPointLists == {<<start, start + span * HoursPerDay>> : start \in XStartValues, span \in GridSpanDays}
GridViewDays == {0, 61, 120, 400}
totalDomainDaysOf(points) == (SeqMax(points) - SeqMin(points)) \div HoursPerDay
GridCalls ==
    {c \in [fn : {"grid"}, points : GridPointLists, chartWidth : {300},
            viewDays : GridViewDays, panOffset : 0..200] :
        c.panOffset <= (IF c.viewDays > 0
                        THEN Max(0, totalDomainDaysOf(c.points) - c.viewDays) ELSE 0)}

GridInit ==
    /\ fnCall \in GridCalls
    /\ fnOut = <<>>

callDrawGrid ==
    /\ fnCall # <<>>
    /\ fnCall.fn = "grid"
    /\ fnOut = <<>>
    /\ fnOut' = [range |-> getVisibleDateRange(fnCall.points, fnCall.viewDays, fnCall.panOffset),
                 xScale |-> createXScale(fnCall.points, fnCall.chartWidth, fnCall.viewDays,
                                         fnCall.panOffset),
                 shaded |-> shadedMonths(fnCall.points, fnCall.viewDays, fnCall.panOffset,
                                         fnCall.chartWidth)]
    /\ UNCHANGED fnCall

-----------------------------------------------------------------------------
(* The relative ranges: the cutoff of filterByRange (src/analytics.js), of *)
(* updateChartTimeRange (src/chart-config.js) and the view length of       *)
(* SeriesChart.updateChart.  A window is measured in days: each cutoff     *)
(* keeps the time of day of the reference instant.                         *)

\* The Date of local day number days with the time of day of date.
dateOfDay(days, date) ==
    LET civil == CivilFromDays(days)
    IN  newDate(civil.year, civil.month - 1, civil.day,
                date.hours, date.minutes, date.seconds)

\* date.setDate(dayValue): days outside the month run over into the
\* neighbouring months
setDate(date, dayValue) ==
    dateOfDay(DaysFromCivil(date.year, date.month + 1, 1) + dayValue - 1, date)

\* date.setMonth(monthValue): months outside 0..11 move the year, and a day
\* the month does not have runs over into the next month
setMonth(date, monthValue) ==
    LET months == date.year * 12 + monthValue
    IN  dateOfDay(DaysFromCivil(months \div 12, (months % 12) + 1, 1) + date.date - 1, date)

\* date.setFullYear(yearValue): 29 February runs over to 1 March
setFullYear(date, yearValue) ==
    dateOfDay(DaysFromCivil(yearValue, date.month + 1, 1) + date.date - 1, date)

\* filterByRange: cutoffDate for the range, now being new Date(); Null for
\* 'all' and for an unknown range, which filter nothing
cutoffDate(range, customDays, now) ==
    CASE range = "day" -> subDays(now, 1)
      [] range = "week" -> subDays(now, 7)
      [] range = "month" -> subMonths(now, 1)
      [] range = "quarter" -> subMonths(now, 3)
      [] range = "year" -> subYears(now, 1)
      [] range = "custom" -> subDays(now, customDays)
      [] OTHER -> Null

\* updateChartTimeRange: the Date whose getTime() becomes scales.x.min;
\* cutoff and now are both new Date().  Null when scales.x.min is deleted.
updateChartTimeRange(range, customDays, now) ==
    CASE range = "all" -> Null
      [] range = "day" -> setDate(now, now.date - 1)
      [] range = "week" -> setDate(now, now.date - 7)
      [] range = "month" -> setMonth(now, now.month - 1)
      [] range = "quarter" -> setMonth(now, now.month - 3)
      [] range = "year" -> setFullYear(now, now.year - 1)
      [] range = "custom" -> setDate(now, now.date - customDays)
      [] OTHER -> now

\* SeriesChart.updateChart: viewDays for a range other than 'all'
rangeViewDays(range, customDays) ==
    CASE range = "custom" /\ customDays # 0 -> customDays
      [] range = "day" -> 1
      [] range = "week" -> 7
      [] range = "month" -> 30
      [] range = "quarter" -> 90
      [] range = "year" -> 365
      [] OTHER -> 0

\* Reference instants: 09:00 on each of the WindowDays days from
\* 2024-01-25 on, which pass the ends of January, February (a leap day) and
\* March.
WindowDays == 70
WindowNows ==
    {dateOfDay(DaysFromCivil(2024, 1, 25) + k, newDate(2024, 0, 25, 9, 0, 0)) :
         k \in 0..(WindowDays - 1)}
WindowCalls ==
    [fn : {"window"}, range : {"day", "week", "month", "quarter", "year", "custom"},
     customDays : {DefaultCustomDays}, now : WindowNows]

WindowInit ==
    /\ fnCall \in WindowCalls
    /\ fnOut = <<>>

\* The three modules turn the range into a window ending at now.
callRangeWindows ==
    /\ fnCall # <<>>
    /\ fnCall.fn = "window"
    /\ fnOut = <<>>
    /\ fnOut' = [filterDays |-> dayNumber(fnCall.now)
                                   - dayNumber(cutoffDate(fnCall.range, fnCall.customDays,
                                                          fnCall.now)),
                 chartDays |-> dayNumber(fnCall.now)
                                  - dayNumber(updateChartTimeRange(fnCall.range,
                                                                   fnCall.customDays,
                                                                   fnCall.now)),
                 viewDays |-> rangeViewDays(fnCall.range, fnCall.customDays)]
    /\ UNCHANGED fnCall

-----------------------------------------------------------------------------
(* Quick increment: ChronosDB.quickIncrement and SerieCard.handleIncrement *)
(* over IndexedDB.  fnOut holds the entries store of one series (db), the  *)
(* transactions created and not yet run, oldest first (queue), and the     *)
(* invocations begun and finished.  IndexedDB runs the transactions of a   *)
(* store in the order of their creation; the code awaiting a request       *)
(* resumes when its transaction has run, before the next one runs.  An     *)
(* entry is read through its key (id), its calendar day and its value.     *)

\* The most clicks of one run.
MaxClicks == 3

\* entries.find(x => x.timestamp.startsWith(todayStr)): the 1-based place
\* of the first entry of today, 0 for undefined
findToday(entries) ==
    LET hits == {i \in DOMAIN entries : entries[i].day = "today"}
    IN  IF hits = {} THEN 0 ELSE CHOOSE i \in hits : \A j \in hits : i <= j

\* The entry quickIncrement and handleIncrement pass to saveEntry after
\* reading entries: today's entry raised by one, or a new one (id 0 stands
\* for no id) of value 1.
incrementedEntry(entries) ==
    LET at == findToday(entries)
    IN  IF at # 0
        THEN [entries[at] EXCEPT !.value = (IF @ = 0 THEN 0 ELSE @) + 1]
        ELSE [id |-> 0, day |-> "today", value |-> 1]

\* save('entries', data): store.put(data) with an id, store.add(data), which
\* generates the next key, without
save(db, cleanData) ==
    IF cleanData.id # 0
    THEN IF \E i \in DOMAIN db : db[i].id = cleanData.id
         THEN [i \in DOMAIN db |-> IF db[i].id = cleanData.id THEN cleanData ELSE db[i]]
         ELSE Append(db, cleanData)
    ELSE LET keys == {db[i].id : i \in DOMAIN db}
             nextKey == IF keys = {} THEN 1 ELSE (CHOOSE k \in keys : \A l \in keys : l <= k) + 1
         IN  Append(db, [cleanData EXCEPT !.id = nextKey])

\* The store before the first click: empty, holding an entry of yesterday,
\* an entry of today, or both.
IncrementStores ==
    {<<>>,
     <<[id |-> 1, day |-> "yesterday", value |-> 7]>>,
     <<[id |-> 1, day |-> "today", value |-> 0]>>,
     <<[id |-> 1, day |-> "yesterday", value |-> 7], [id |-> 2, day |-> "today", value |-> 5]>>}

IncrementCalls == [fn : {"increment"}, entries : IncrementStores, clicks : 1..MaxClicks]

IncrementInit ==
    /\ fnCall \in IncrementCalls
    /\ fnOut = [db |-> fnCall.entries, queue |-> <<>>, started |-> 0, finished |-> 0,
                overlapped |-> FALSE]

\* The start of quickIncrement and of handleIncrement up to the first
\* await: getEntriesForSeries creates its readonly transaction.
beginIncrement ==
    /\ fnCall # <<>>
    /\ fnCall.fn = "increment"
    /\ fnOut.started < fnCall.clicks
    /\ fnOut' = [fnOut EXCEPT !.queue = Append(@, [request |-> "getAll"]),
                              !.started = @ + 1,
                              !.overlapped = @ \/ fnOut.started > fnOut.finished]
    /\ UNCHANGED fnCall

\* ChronosDB.quickIncrement(series), called by quickAction
quickIncrement == beginIncrement

\* SerieCard.handleIncrement(), the card's increment button
handleIncrement == beginIncrement

\* IndexedDB runs the oldest transaction and its request succeeds.  After
\* getAll the awaiting invocation resumes with the entries read and calls
\* saveEntry, which creates a readwrite transaction; after put or add the
\* invocation finishes.
requestSuccess ==
    /\ fnCall # <<>>
    /\ fnCall.fn = "increment"
    /\ fnOut.queue # <<>>
    /\ LET tx == Head(fnOut.queue)
       IN  IF tx.request = "getAll"
           THEN fnOut' = [fnOut EXCEPT
                             !.queue = Append(Tail(@),
                                              [request |-> "save",
                                               data |-> incrementedEntry(fnOut.db)])]
           ELSE fnOut' = [fnOut EXCEPT !.queue = Tail(@),
                                       !.db = save(@, tx.data),
                                       !.finished = @ + 1]
    /\ UNCHANGED fnCall

-----------------------------------------------------------------------------
(* ChronosChart: the pan controller.  The element is taken as connected    *)
(* (rendered, listeners attached): the property setters and the public     *)
(* methods act on the pan fields alike before and after connection.        *)

ChartInit ==
    /\ data = {}
    /\ optViewDays = 0
    /\ originalViewDays = 0
    /\ panOffset = 0
    /\ isPanning = FALSE
    /\ panStartX = 0
    /\ panStartOffset = 0
    /\ panReadyClass = FALSE
    /\ panningClass = FALSE
    /\ lastOp = "constructor"
    /\ pre = [offset |-> 0, panning |-> FALSE]
    /\ dragOnly = FALSE

Observe(op, drag) ==
    /\ lastOp' = op
    /\ pre' = [offset |-> panOffset, panning |-> isPanning]
    /\ dragOnly' = drag

\* A faulty resetPanState: it resets the offset and leaves a drag running.
resetPanStateKeepsDrag(view) ==
    /\ panOffset' = 0
    /\ isPanning' = isPanning
    /\ originalViewDays' = view
    /\ panReadyClass' = FALSE
    /\ panningClass' = FALSE

\* resetPanState(), called when _options.viewDays is `view`
resetPanState(view) ==
    /\ panOffset' = 0
    /\ isPanning' = FALSE
    /\ originalViewDays' = view
    /\ panReadyClass' = FALSE
    /\ panningClass' = FALSE

\* set data(value), updateData(newData)
setData ==
    \E value \in DataValues :
        /\ data' = value
        /\ resetPanState(optViewDays)
        /\ Observe("setData", FALSE)
        /\ UNCHANGED <<optViewDays, panStartX, panStartOffset>>

\* attributeChangedCallback('data', oldValue, newValue): returns when
\* oldValue === newValue (unchangedAttr); JSON.parse throws on text that is
\* not JSON, and the handler catches it.
attrData ==
    \/ \* oldValue === newValue
       /\ Observe("attrDataIgnored", FALSE)
       /\ UNCHANGED <<data, optViewDays, originalViewDays, panOffset,
                      isPanning, panStartX, panStartOffset,
                      panReadyClass, panningClass>>
    \/ \E newValue \in AttrDataValues :
           IF newValue.json
           THEN /\ data' = newValue.value
                /\ resetPanState(optViewDays)
                /\ Observe("attrData", FALSE)
                /\ UNCHANGED <<optViewDays, panStartX, panStartOffset>>
           ELSE /\ Observe("attrDataIgnored", FALSE)
                /\ UNCHANGED <<data, optViewDays, originalViewDays, panOffset,
                               isPanning, panStartX, panStartOffset,
                               panReadyClass, panningClass>>

\* set options(value), updateOptions(newOptions): the defaults (viewDays 0)
\* merged with value.
setOptions ==
    \E value \in OptionValues :
        /\ optViewDays' = IF value.hasViewDays THEN value.viewDays ELSE 0
        /\ originalViewDays' =
               IF value.hasViewDays THEN value.viewDays ELSE originalViewDays
        /\ Observe("setOptions", FALSE)
        /\ UNCHANGED <<data, panOffset, isPanning, panStartX, panStartOffset,
                       panReadyClass, panningClass>>

\* attributeChangedCallback('options', oldValue, newValue): the current
\* options merged with the parsed ones.
attrOptions ==
    \/ \* oldValue === newValue
       /\ Observe("attrOptionsIgnored", FALSE)
       /\ UNCHANGED <<data, optViewDays, originalViewDays, panOffset,
                      isPanning, panStartX, panStartOffset,
                      panReadyClass, panningClass>>
    \/ \E value \in OptionValues :
           /\ optViewDays' = IF value.hasViewDays THEN value.viewDays ELSE optViewDays
           /\ Observe("attrOptions", FALSE)
           /\ UNCHANGED <<data, originalViewDays, panOffset, isPanning, panStartX,
                          panStartOffset, panReadyClass, panningClass>>

\* attributeChangedCallback('view-days', oldValue, newValue)
attrViewDays ==
    \/ \* oldValue === newValue
       /\ Observe("attrViewDaysIgnored", FALSE)
       /\ UNCHANGED <<data, optViewDays, originalViewDays, panOffset,
                      isPanning, panStartX, panStartOffset,
                      panReadyClass, panningClass>>
    \/ \E newValue \in AttrViewValues :
           /\ optViewDays' = ParseIntOrZero(newValue)
           /\ resetPanState(ParseIntOrZero(newValue))
           /\ Observe("attrViewDays", FALSE)
           /\ UNCHANGED <<data, panStartX, panStartOffset>>

\* clear()
clear ==
    /\ data' = {}
    /\ Observe("clear", FALSE)
    /\ UNCHANGED <<optViewDays, originalViewDays, panOffset, isPanning,
                   panStartX, panStartOffset, panReadyClass, panningClass>>

\* resetPan()
resetPan ==
    /\ resetPanState(optViewDays)
    /\ Observe("resetPan", FALSE)
    /\ UNCHANGED <<data, optViewDays, panStartX, panStartOffset>>

\* panTo(offsetDays)
panTo ==
    \E offsetDays \in PanToArgs :
        /\ IF optViewDays > 0
           THEN LET totalDays == getTotalDataDays(data)
                    maxOffset == Max(0, totalDays - originalViewDays * Scale)
                IN  panOffset' = Max(0, Min(maxOffset, offsetDays))
           ELSE panOffset' = panOffset
        /\ Observe("panTo", FALSE)
        /\ UNCHANGED <<data, optViewDays, originalViewDays, isPanning,
                       panStartX, panStartOffset, panReadyClass, panningClass>>

\* handlePointerEnter(event)
handlePointerEnter ==
    /\ panReadyClass' = (panReadyClass \/ optViewDays > 0)
    /\ Observe("pointerenter", FALSE)
    /\ UNCHANGED <<data, optViewDays, originalViewDays, panOffset, isPanning,
                   panStartX, panStartOffset, panningClass>>

\* handlePointerLeave(event)
handlePointerLeave ==
    /\ panReadyClass' = FALSE
    /\ panningClass' = FALSE
    /\ Observe("pointerleave", FALSE)
    /\ UNCHANGED <<data, optViewDays, originalViewDays, panOffset, isPanning,
                   panStartX, panStartOffset>>

\* startPan(clientX)
startPan(clientX) ==
    /\ isPanning' = TRUE
    /\ panStartX' = clientX
    /\ panStartOffset' = panOffset
    /\ panReadyClass' = FALSE
    /\ panningClass' = TRUE

\* handlePointerDown(event): event.button is 0 (primary) or another button.
handlePointerDown ==
    \E clientX \in ClientXs, button \in {0, 2} :
        /\ IF optViewDays <= 0 \/ button # 0
           THEN UNCHANGED <<isPanning, panStartX, panStartOffset,
                            panReadyClass, panningClass>>
           ELSE startPan(clientX)
        /\ Observe("pointerdown", ~(optViewDays <= 0 \/ button # 0))
        /\ UNCHANGED <<data, optViewDays, originalViewDays, panOffset>>

\* updatePan(clientX), for a chart of width chartWidth: the new _panOffset.
\* _maxPanOffset is written here and read nowhere else.
updatePanOffset(clientX, chartWidth) ==
    LET deltaX == clientX - panStartX
        totalDays == getTotalDataDays(data)
        visibleDays == originalViewDays * Scale
        maxPanOffset == Max(0, totalDays - visibleDays)
        daysPerPixel == maxPanOffset \div chartWidth
        newOffset == panStartOffset + deltaX * daysPerPixel
    IN  Max(0, Min(maxPanOffset, newOffset))

\* updatePan(clientX)
updatePan(clientX, chartWidth) ==
    /\ panOffset' = updatePanOffset(clientX, chartWidth)
    /\ optViewDays' = originalViewDays

\* A faulty handlePointerMove: it updates the pan without looking at
\* _isPanning.
pointerMoveUnguarded(clientX, chartWidth) ==
    /\ IF optViewDays <= 0
       THEN UNCHANGED <<panOffset, optViewDays>>
       ELSE updatePan(clientX, chartWidth)
    /\ Observe("pointermove", dragOnly)
    /\ UNCHANGED <<data, originalViewDays, isPanning, panStartX,
                   panStartOffset, panReadyClass, panningClass>>

\* handlePointerMove(event) with event.clientX = clientX, while the chart
\* is chartWidth pixels wide
pointerMoveAt(clientX, chartWidth) ==
    /\ IF ~isPanning \/ optViewDays <= 0
       THEN UNCHANGED <<panOffset, optViewDays>>
       ELSE updatePan(clientX, chartWidth)
    /\ Observe("pointermove", dragOnly)
    /\ UNCHANGED <<data, originalViewDays, isPanning, panStartX,
                   panStartOffset, panReadyClass, panningClass>>

handlePointerMove ==
    \E clientX \in ClientXs, chartWidth \in ChartWidths :
        pointerMoveAt(clientX, chartWidth)

\* endPan()
endPan ==
    /\ isPanning' = FALSE
    /\ panningClass' = FALSE
    /\ panReadyClass' = (panReadyClass \/ optViewDays > 0)

\* handlePointerUp(event), the listener of pointerup and of pointercancel
handlePointerUp(type) ==
    /\ IF ~isPanning
       THEN UNCHANGED <<isPanning, panningClass, panReadyClass>>
       ELSE endPan
    /\ Observe(type, FALSE)
    /\ UNCHANGED <<data, optViewDays, originalViewDays, panOffset, panStartX,
                   panStartOffset>>

pointerup == handlePointerUp("pointerup")
pointercancel == handlePointerUp("pointercancel")

Next ==
    \/ setData /\ UNCHANGED <<statsVars, periodVars, scaleVars, callVars>>
    \/ attrData /\ UNCHANGED <<statsVars, periodVars, scaleVars, callVars>>
    \/ setOptions /\ UNCHANGED <<statsVars, periodVars, scaleVars, callVars>>
    \/ attrOptions /\ UNCHANGED <<statsVars, periodVars, scaleVars, callVars>>
    \/ attrViewDays /\ UNCHANGED <<statsVars, periodVars, scaleVars, callVars>>
    \/ clear /\ UNCHANGED <<statsVars, periodVars, scaleVars, callVars>>
    \/ resetPan /\ UNCHANGED <<statsVars, periodVars, scaleVars, callVars>>
    \/ panTo /\ UNCHANGED <<statsVars, periodVars, scaleVars, callVars>>
    \/ handlePointerEnter /\ UNCHANGED <<statsVars, periodVars, scaleVars, callVars>>
    \/ handlePointerLeave /\ UNCHANGED <<statsVars, periodVars, scaleVars, callVars>>
    \/ handlePointerDown /\ UNCHANGED <<statsVars, periodVars, scaleVars, callVars>>
    \/ handlePointerMove /\ UNCHANGED <<statsVars, periodVars, scaleVars, callVars>>
    \/ pointerup /\ UNCHANGED <<statsVars, periodVars, scaleVars, callVars>>
    \/ pointercancel /\ UNCHANGED <<statsVars, periodVars, scaleVars, callVars>>

Init == ChartInit /\ StatsOff /\ PeriodOff /\ ScaleOff /\ CallOff

Spec == Init /\ [][Next]_vars

\* calculateStats on bounded inputs
StatsNext == callCalculateStats /\ UNCHANGED <<chartVars, periodVars, scaleVars, callVars>>

InitStats == ChartInit /\ StatsInit /\ PeriodOff /\ ScaleOff /\ CallOff

SpecStats == InitStats /\ [][StatsNext]_vars

\* calculateStats with its three arguments chosen freely
StatsArgsNext == callCalculateStatsWith /\ UNCHANGED <<chartVars, periodVars, scaleVars, callVars>>

InitStatsArgs == ChartInit /\ StatsArgsInit /\ PeriodOff /\ ScaleOff /\ CallOff

SpecStatsArgs == InitStatsArgs /\ [][StatsArgsNext]_vars

\* calculateRunningMetric on bounded inputs
RunningNext == callCalculateRunningMetric /\ UNCHANGED <<chartVars, periodVars, scaleVars, callVars>>

InitRunning == ChartInit /\ RunningInit /\ PeriodOff /\ ScaleOff /\ CallOff

SpecRunning == InitRunning /\ [][RunningNext]_vars

\* getPeriodData and the period filters on bounded inputs
PeriodNext ==
    \/ callGetPeriodData /\ UNCHANGED <<chartVars, statsVars, scaleVars, callVars>>
    \/ callFilterEntriesByPeriod /\ UNCHANGED <<chartVars, statsVars, scaleVars, callVars>>
    \/ callCalculateLegacySummary /\ UNCHANGED <<chartVars, statsVars, scaleVars, callVars>>

InitPeriod == ChartInit /\ StatsOff /\ PeriodInit /\ ScaleOff /\ CallOff

SpecPeriod == InitPeriod /\ [][PeriodNext]_vars

\* filterByRange on bounded inputs
RangeNext == callFilterByRange /\ UNCHANGED <<chartVars, statsVars, scaleVars, callVars>>

SpecRange == InitPeriod /\ [][RangeNext]_vars

\* createXScale on bounded inputs
XScaleNext == callCreateXScale /\ UNCHANGED <<chartVars, statsVars, periodVars, callVars>>

InitXScale == ChartInit /\ StatsOff /\ PeriodOff /\ XScaleInit /\ CallOff

SpecXScale == InitXScale /\ [][XScaleNext]_vars

YScaleNext == callCreateYScale /\ UNCHANGED <<chartVars, statsVars, periodVars, callVars>>

InitYScale == ChartInit /\ StatsOff /\ PeriodOff /\ YScaleInit /\ CallOff

SpecYScale == InitYScale /\ [][YScaleNext]_vars

PathNext == callGenerateSmoothPath /\ UNCHANGED <<chartVars, statsVars, periodVars, scaleVars>>

InitPath == ChartInit /\ StatsOff /\ PeriodOff /\ ScaleOff /\ PathInit

SpecPath == InitPath /\ [][PathNext]_vars

RollingNext ==
    \/ callRawRolling /\ UNCHANGED <<chartVars, statsVars, periodVars, scaleVars>>
    \/ callPeriodRolling /\ UNCHANGED <<chartVars, statsVars, periodVars, scaleVars>>
    \/ callSeriesSummary /\ UNCHANGED <<chartVars, statsVars, periodVars, scaleVars>>

InitRolling == ChartInit /\ StatsOff /\ PeriodOff /\ ScaleOff /\ RollingInit

SpecRolling == InitRolling /\ [][RollingNext]_vars

GridNext == callDrawGrid /\ UNCHANGED <<chartVars, statsVars, periodVars, scaleVars>>

InitGrid == ChartInit /\ StatsOff /\ PeriodOff /\ ScaleOff /\ GridInit

SpecGrid == InitGrid /\ [][GridNext]_vars

WindowNext == callRangeWindows /\ UNCHANGED <<chartVars, statsVars, periodVars, scaleVars>>

InitWindow == ChartInit /\ StatsOff /\ PeriodOff /\ ScaleOff /\ WindowInit

SpecWindow == InitWindow /\ [][WindowNext]_vars

IncrementNext ==
    \/ quickIncrement /\ UNCHANGED <<chartVars, statsVars, periodVars, scaleVars>>
    \/ handleIncrement /\ UNCHANGED <<chartVars, statsVars, periodVars, scaleVars>>
    \/ requestSuccess /\ UNCHANGED <<chartVars, statsVars, periodVars, scaleVars>>

InitIncrement == ChartInit /\ StatsOff /\ PeriodOff /\ ScaleOff /\ IncrementInit

SpecIncrement == InitIncrement /\ [][IncrementNext]_vars

\* calculateStats called directly and through getPeriodData
InitStatsPeriod == InitStatsArgs \/ InitPeriod

StatsPeriodNext ==
    \/ callCalculateStatsWith /\ UNCHANGED <<chartVars, periodVars, scaleVars, callVars>>
    \/ callGetPeriodData /\ UNCHANGED <<chartVars, statsVars, scaleVars, callVars>>

SpecStatsPeriod == InitStatsPeriod /\ [][StatsPeriodNext]_vars

-----------------------------------------------------------------------------
(* Claims about the pan controller *)

\* max(0, totalDomainDays - viewDays) for the loaded data and _options.viewDays
MaxOffsetForView == Max(0, getTotalDataDays(data) - optViewDays * Scale)
\* max(0, totalDomainDays - originalViewDays), as a drag move recomputes it
MaxOffsetForDrag == Max(0, getTotalDataDays(data) - originalViewDays * Scale)
Clamp(x, lo, hi) == IF x < lo THEN lo ELSE IF x > hi THEN hi ELSE x
\* Idle: no drag, and the container carries neither pan class
Idle == ~isPanning /\ ~panningClass /\ ~panReadyClass

\* C1: in every reachable state 0 <= panOffsetDays <= max(0, totalDomainDays -
\* viewDays), for the currently loaded data and the current view length.
PanOffsetWithinView == 0 <= panOffset /\ panOffset <= MaxOffsetForView

\* C2: after a data load (the data setter / updateData, or a 'data' attribute
\* that changed to valid JSON), in whatever controller state it arrived,
\* panOffsetDays is 0 and the controller is Idle.
DataLoadResetsPan ==
    lastOp \in {"setData", "attrData"} => panOffset = 0 /\ Idle

\* C2 witness: a load arrived in the middle of a drag that had panned away.
DataLoadDuringDrag ==
    /\ lastOp \in {"setData", "attrData"}
    /\ pre.panning
    /\ pre.offset > 0
    /\ panOffset = 0
    /\ ~isPanning

\* C3: every change of viewDays through the options setter, the 'options'
\* attribute or the 'view-days' attribute forces panOffsetDays to 0 and the
\* controller to Idle.
ViewDaysChangeResetsPan ==
    [][(/\ lastOp' \in {"setOptions", "attrOptions", "attrViewDays"}
        /\ optViewDays' # optViewDays)
       => (panOffset' = 0 /\ ~isPanning' /\ ~panningClass')]_vars

\* C4: during a drag (a pointer-down followed by pointer-moves only) every
\* pointer-move at x over a chart w pixels wide sets
\* panOffsetDays to clamp(startOffset + (x - startX) * maxOffset / w, 0,
\* maxOffset), maxOffset being recomputed from the current data on that move.
DragMoveSetsClampedOffset ==
    [][\A x \in ClientXs, w \in ChartWidths :
          (dragOnly /\ pointerMoveAt(x, w)) =>
              panOffset' = Clamp(panStartOffset
                                   + ((x - panStartX) * MaxOffsetForDrag) \div w,
                                 0, MaxOffsetForDrag)]_vars

\* The same statement for the moves the handler does not return early from.
HandledDragMoveSetsClampedOffset ==
    [][\A x \in ClientXs, w \in ChartWidths :
          (isPanning /\ optViewDays > 0 /\ pointerMoveAt(x, w)) =>
              /\ panOffset' = Clamp(panStartOffset
                                   + ((x - panStartX) * MaxOffsetForDrag) \div w,
                                 0, MaxOffsetForDrag)
              /\ 0 <= panOffset' /\ panOffset' <= MaxOffsetForDrag]_vars

\* C5: from Panning, each of pointerup, pointerleave and pointercancel ends
\* the drag: the controller is not panning afterwards, and is Ready when
\* viewDays > 0.
ReleaseLeaveCancelEndDrag ==
    (lastOp \in {"pointerup", "pointerleave", "pointercancel"} /\ pre.panning)
        => (~isPanning /\ ~panningClass /\ (optViewDays > 0 => panReadyClass))

-----------------------------------------------------------------------------
(* Claims about calculateStats and calculateRunningMetric *)

Range(arr) == {arr[i] : i \in DOMAIN arr}

\* The k-th smallest (0-based) element of a non-empty list.
NthSmallest(arr, k) ==
    CHOOSE v \in Range(arr) :
        /\ Cardinality({j \in DOMAIN arr : arr[j] < v}) <= k
        /\ k < Cardinality({j \in DOMAIN arr : arr[j] <= v})

\* The quantile k / steps of a non-empty list by linear interpolation
\* between order statistics: p = (n - 1) * q, b = floor(p), and
\* v[b] + (p - b) * (v[b+1] - v[b]), or v[b] alone when b is the last index.
InterpolatedQuantile(arr, k, steps) ==
    LET n == Len(arr)
        b == ((n - 1) * k) \div steps
        r == ((n - 1) * k) % steps
    IN  IF b = n - 1 THEN RatOf(NthSmallest(arr, b))
        ELSE Rat(steps * NthSmallest(arr, b)
                   + r * (NthSmallest(arr, b + 1) - NthSmallest(arr, b)), steps)

\* The statistic id of a non-empty window of values that carries no entries.
WindowStatistic(window, id) ==
    CASE id = "mean" -> Rat(SumSeq(window), Len(window))
      [] id = "dayMean" -> RatOf(0)
      [] id = "sum" -> RatOf(SumSeq(window))
      [] id = "count" -> RatOf(Len(window))
      [] id = "min" -> RatOf(NthSmallest(window, 0))
      [] id = "q1" -> InterpolatedQuantile(window, 1, 4)
      [] id = "median" -> InterpolatedQuantile(window, 2, 4)
      [] id = "q3" -> InterpolatedQuantile(window, 3, 4)
      [] id = "max" -> RatOf(NthSmallest(window, Len(window) - 1))
      [] id = "first" -> RatOf(window[1])
      [] id = "last" -> RatOf(window[Len(window)])

\* C6: for N values, aligned labels, a statistic id and a window size W,
\* calculateRunningMetric returns nothing when N = 0, W < 2 or N < W, and
\* otherwise exactly N - W + 1 points, point i (0-based) having y = the
\* statistic over values[i..i+W-1] and x = labels[floor(i + (W - 1) / 2)];
\* values [1,2,3,4,5] with W = 3 and "mean" give (L1,2), (L2,3), (L3,4).
RunningMetricPoints ==
    (statsPc = "running" /\ inMetric \in StatIds) =>
        LET N == Len(inValues)
            W == inWindow
        IN  /\ (N = 0 \/ W < 2 \/ N < W) => outRunning = <<>>
            /\ ~(N = 0 \/ W < 2 \/ N < W) =>
                   /\ Len(outRunning) = N - W + 1
                   /\ \A i \in 0..(N - W) :
                          /\ outRunning[i + 1].x = inLabels[(i + (W - 1) \div 2) + 1]
                          /\ outRunning[i + 1].y =
                                 WindowStatistic(SubSeq(inValues, i + 1, i + W), inMetric)
            /\ (inValues = <<1, 2, 3, 4, 5>> /\ W = 3 /\ inMetric = "mean") =>
                   outRunning = <<[x |-> inLabels[2], y |-> RatOf(2)],
                                  [x |-> inLabels[3], y |-> RatOf(3)],
                                  [x |-> inLabels[4], y |-> RatOf(4)]>>

\* C6 witness: the running mean of [1,2,3,4,5] over windows of 3 was computed.
RunningMeanOfFive ==
    /\ statsPc = "running"
    /\ inValues = <<1, 2, 3, 4, 5>>
    /\ inWindow = 3
    /\ inMetric = "mean"
    /\ Len(outRunning) = 3

\* C7: for a non-empty ascending array of n values, quantile q is
\* v[b] + (p - b) * (v[b+1] - v[b]) with p = (n - 1) * q and b = floor(p),
\* or v[b] alone when b is the last index; q1, median and q3 are the
\* quantiles 0.25, 0.5 and 0.75; [10,20,30,40] gives mean 25, sum 100,
\* count 4, min 10, q1 17.5, median 25, q3 32.5, max 40.
QuantilesInterpolate ==
    (statsPc = "stats" /\ Len(inValues) > 0) =>
        /\ \A k \in 0..QuantileSteps :
               getQuantile(SortAsc(inValues), Rat(k, QuantileSteps))
                   = InterpolatedQuantile(inValues, k, QuantileSteps)
        /\ outStats.q1 = InterpolatedQuantile(inValues, 1, 4)
        /\ outStats.median = InterpolatedQuantile(inValues, 2, 4)
        /\ outStats.q3 = InterpolatedQuantile(inValues, 3, 4)
        /\ inValues = <<10, 20, 30, 40>> =>
               /\ outStats.mean = RatOf(25)
               /\ outStats.sum = RatOf(100)
               /\ outStats.count = RatOf(4)
               /\ outStats.min = RatOf(10)
               /\ outStats.q1 = Rat(35, 2)
               /\ outStats.median = RatOf(25)
               /\ outStats.q3 = Rat(65, 2)
               /\ outStats.max = RatOf(40)

\* C7 witness: the statistics of [10,20,30,40] were computed, q1 between
\* two of the values.
StatsOfTenToForty ==
    /\ statsPc = "stats"
    /\ inValues = <<10, 20, 30, 40>>
    /\ outStats.q1 = Rat(35, 2)

\* C8: for a fixed non-empty ascending array the quantile is monotonically
\* non-decreasing in q over [0, 1], so min <= q1 <= median <= q3 <= max.
QuantileMonotone ==
    (statsPc = "stats" /\ Len(inValues) > 0) =>
        /\ LET quantileAt == [k \in 0..QuantileSteps |->
                                  getQuantile(SortAsc(inValues), Rat(k, QuantileSteps))]
           IN  \A k1, k2 \in 0..QuantileSteps :
                   k1 <= k2 => RatLe(quantileAt[k1], quantileAt[k2])
        /\ RatLe(outStats.min, outStats.q1)
        /\ RatLe(outStats.q1, outStats.median)
        /\ RatLe(outStats.median, outStats.q3)
        /\ RatLe(outStats.q3, outStats.max)

\* C8 witness: statistics whose five order statistics are all different.
QuartilesStrictlyOrdered ==
    /\ statsPc = "stats"
    /\ RatLt(outStats.min, outStats.q1)
    /\ RatLt(outStats.q1, outStats.median)
    /\ RatLt(outStats.median, outStats.q3)
    /\ RatLt(outStats.q3, outStats.max)

-----------------------------------------------------------------------------
(* Claims about getPeriodData and the week start *)

\* The calendar day (month 1..12) a yyyy-MM-dd text names.
DecodeDay(text) ==
    [year |-> ReadNumber(text, 1, 4), month |-> ReadNumber(text, 6, 7),
     day |-> ReadNumber(text, 9, 10)]

IsDayText(text) == Len(text) = 10 /\ text[5] = 45 /\ text[8] = 45

DayBefore(a, b) ==
    \/ a.year < b.year
    \/ a.year = b.year /\ a.month < b.month
    \/ a.year = b.year /\ a.month = b.month /\ a.day < b.day

\* The calendar day of an entry: the date part of its timestamp.
EntryDay(e) == DecodeDay(SubSeq(e.timestamp, 1, 10))

\* The Sunday on or before a calendar day.
SundayOnOrBefore(d) ==
    LET n == DaysFromCivil(d.year, d.month, d.day)
    IN  CivilFromDays(CHOOSE k \in (n - 6)..n : (k + 4) % 7 = 0)

\* The day that keys the bucket of calendar day d.
BucketDay(d, period) ==
    CASE period = "day" -> d
      [] period = "week" -> SundayOnOrBefore(d)
      [] period = "month" -> [year |-> d.year, month |-> d.month, day |-> 1]
      [] period = "quarter" ->
             [year |-> d.year,
              month |-> CHOOSE m \in {1, 4, 7, 10} : m <= d.month /\ d.month <= m + 2,
              day |-> 1]
      [] period = "year" -> [year |-> d.year, month |-> 1, day |-> 1]

\* The values of a list of entries, in order.
ValuesOf(entries) == [i \in DOMAIN entries |-> entries[i].value]

\* The statistic id of a non-empty bucket of entries.
BucketStatistic(bucket, id) ==
    IF id = "dayMean"
    THEN Rat(SumSeq(ValuesOf(bucket)),
             Cardinality({EntryDay(bucket[i]) : i \in DOMAIN bucket}))
    ELSE WindowStatistic(ValuesOf(bucket), id)

\* C9: for non-empty entries and a period of day, week, month, quarter or
\* year, the labels of getPeriodData are strictly ascending in time, with no
\* duplicates, and each of the eleven statistics has a dataset as long as
\* labels whose i-th element is that statistic of the bucket labelled
\* labels[i]; (2024-01-01, 10), (2024-01-02, 20), (2024-01-03, 30) by day
\* give those three labels, mean [10,20,30] and count [1,1,1].
PeriodDataAligned ==
    (periodPc = "period" /\ Len(pdEntries) > 0 /\ pdPeriod \in BucketPeriods) =>
        LET labels == outPeriod.labels
            Bucket(i) ==
                LET inBucket(e) == periodKey(e, pdPeriod) = labels[i]
                IN  SelectSeq(pdEntries, inBucket)
        IN  /\ \A i \in DOMAIN labels : IsDayText(labels[i])
            /\ \A i, j \in DOMAIN labels :
                   i < j => DayBefore(DecodeDay(labels[i]), DecodeDay(labels[j]))
            /\ DOMAIN outPeriod.datasets = StatIds
            /\ \A id \in StatIds :
                   /\ Len(outPeriod.datasets[id]) = Len(labels)
                   /\ \A i \in DOMAIN labels :
                          outPeriod.datasets[id][i] = BucketStatistic(Bucket(i), id)
            /\ (pdEntries = ExampleEntries /\ pdPeriod = "day") =>
                   /\ [i \in DOMAIN labels |-> DecodeDay(labels[i])]
                          = <<[year |-> 2024, month |-> 1, day |-> 1],
                              [year |-> 2024, month |-> 1, day |-> 2],
                              [year |-> 2024, month |-> 1, day |-> 3]>>
                   /\ outPeriod.datasets.mean = <<RatOf(10), RatOf(20), RatOf(30)>>
                   /\ outPeriod.datasets.count = <<RatOf(1), RatOf(1), RatOf(1)>>

\* C9 witness: entries given latest first were grouped into two or more
\* buckets.
TwoBucketsFromUnorderedEntries ==
    /\ periodPc = "period"
    /\ pdPeriod \in BucketPeriods
    /\ Len(pdEntries) >= 2
    /\ Len(outPeriod.labels) >= 2
    /\ DayBefore(EntryDay(pdEntries[Len(pdEntries)]), EntryDay(pdEntries[1]))

-----------------------------------------------------------------------------
(* Claims about the arguments of calculateStats *)

\* C11: calculateStats given an empty or missing sorted-values array returns
\* a result whose eleven fields are all 0, whatever originalOrder and entries
\* are.
EmptyStatsAllZero ==
    (statsPc = "called" /\ (~csArgs.given \/ csArgs.sortedValues = <<>>)) =>
        /\ DOMAIN outStats = StatIds
        /\ \A id \in StatIds : outStats[id] = RatOf(0)

\* C11 witness: the call had no values but an original order and entries.
EmptyStatsWithOtherArguments ==
    /\ statsPc = "called"
    /\ csArgs.given
    /\ csArgs.sortedValues = <<>>
    /\ Len(csArgs.originalOrder) = 2
    /\ Len(csArgs.entries) = 2
    /\ outStats.sum = RatOf(0)

\* C12: calculateStats takes first and last from the ends of originalOrder
\* whenever it is non-empty and from the ends of the sorted array only when
\* it is empty; so the first and last of a getPeriodData bucket are the
\* values of the bucket's first and last entry in input order.
FirstLastFromOriginalOrder ==
    /\ (statsPc = "called" /\ csArgs.given /\ csArgs.sortedValues # <<>>) =>
           LET sorted == csArgs.sortedValues
               original == csArgs.originalOrder
           IN  /\ original # <<>> =>
                      /\ outStats.first = RatOf(original[1])
                      /\ outStats.last = RatOf(original[Len(original)])
               /\ original = <<>> =>
                      /\ outStats.first = RatOf(sorted[1])
                      /\ outStats.last = RatOf(sorted[Len(sorted)])
    /\ (periodPc = "period" /\ Len(pdEntries) > 0 /\ pdPeriod \in BucketPeriods) =>
           \A i \in DOMAIN outPeriod.labels :
               LET members == {j \in DOMAIN pdEntries :
                                   BucketDay(EntryDay(pdEntries[j]), pdPeriod)
                                       = DecodeDay(outPeriod.labels[i])}
                   firstIn == CHOOSE j \in members : \A k \in members : j <= k
                   lastIn == CHOOSE j \in members : \A k \in members : j >= k
               IN  /\ outPeriod.datasets.first[i] = RatOf(pdEntries[firstIn].value)
                   /\ outPeriod.datasets.last[i] = RatOf(pdEntries[lastIn].value)

\* C12 witness: a bucket whose first entry carries its largest value and
\* whose last entry its smallest.
BucketFirstIsNotMin ==
    /\ periodPc = "period"
    /\ pdPeriod \in BucketPeriods
    /\ \E i \in DOMAIN outPeriod.labels :
           /\ outPeriod.datasets.first[i] = outPeriod.datasets.max[i]
           /\ outPeriod.datasets.last[i] = outPeriod.datasets.min[i]
           /\ RatLt(outPeriod.datasets.min[i], outPeriod.datasets.max[i])

-----------------------------------------------------------------------------
(* Claims about filterByRange *)

\* The length of month (1..12) of year.
MonthLength(year, month) ==
    IF month = 2
    THEN IF year % 4 = 0 /\ (year % 100 # 0 \/ year % 400 = 0) THEN 29 ELSE 28
    ELSE IF month \in {4, 6, 9, 11} THEN 30 ELSE 31

\* The calendar day n months before day d: the same day of the month, or
\* the month's last day where the month is shorter.
MonthsBefore(d, n) ==
    LET index == d.year * 12 + (d.month - 1) - n
        year == index \div 12
        month == (index % 12) + 1
    IN  [year |-> year, month |-> month,
         day |-> IF d.day > MonthLength(year, month) THEN MonthLength(year, month)
                 ELSE d.day]

\* The calendar day n days before day d.
DaysBefore(d, n) == CivilFromDays(DaysFromCivil(d.year, d.month, d.day) - n)

\* The seconds since midnight a timestamp text names.
SecondsOfDay(text) ==
    IF Len(text) > 10
    THEN (ReadNumber(text, 12, 13) * 60 + ReadNumber(text, 15, 16)) * 60
             + ReadNumber(text, 18, 19)
    ELSE 0

\* C13: filterByRange returns, in input order, exactly the entries whose
\* timestamp is at or after the cutoff: now minus 1 day (day), 7 days (week),
\* 1 calendar month (month), 3 calendar months (quarter), 1 calendar year
\* (year) or customDays days (custom), months and years counted on the
\* calendar; range all returns every entry.
RangeKeepsEntriesSinceCutoff ==
    (periodPc = "range"
         /\ pdPeriod \in {"day", "week", "month", "quarter", "year", "custom", "all"}) =>
        LET nowDay == [year |-> pdNow.year, month |-> pdNow.month + 1, day |-> pdNow.date]
            nowSeconds == (pdNow.hours * 60 + pdNow.minutes) * 60 + pdNow.seconds
            cutoffDay ==
                CASE pdPeriod = "day" -> DaysBefore(nowDay, 1)
                  [] pdPeriod = "week" -> DaysBefore(nowDay, 7)
                  [] pdPeriod = "month" -> MonthsBefore(nowDay, 1)
                  [] pdPeriod = "quarter" -> MonthsBefore(nowDay, 3)
                  [] pdPeriod = "year" -> MonthsBefore(nowDay, 12)
                  [] pdPeriod = "custom" -> DaysBefore(nowDay, outRange.customDays)
                  [] pdPeriod = "all" -> nowDay
            kept(e) ==
                \/ pdPeriod = "all"
                \/ DayBefore(cutoffDay, EntryDay(e))
                \/ cutoffDay = EntryDay(e) /\ SecondsOfDay(e.timestamp) >= nowSeconds
        IN  outRange.entries = SelectSeq(pdEntries, kept)

\* C13 witness: on 2024-03-31 the range month keeps an entry of 2024-02-29,
\* which lies more than thirty days back, and drops an older one.
MonthRangeKeepsLeapDay ==
    /\ periodPc = "range"
    /\ pdPeriod = "month"
    /\ pdNow.month = 2
    /\ Len(pdEntries) = 2
    /\ Len(outRange.entries) = 1
    /\ EntryDay(outRange.entries[1]) = [year |-> 2024, month |-> 2, day |-> 29]

-----------------------------------------------------------------------------
(* Claims about createXScale *)

\* The domain of the points passed: their earliest and latest instant.
DomainMin == SeqMin(xsArgs.points)
DomainMax == SeqMax(xsArgs.points)

\* C14: with viewDays > 0 and a pan offset >= 0, visibleMax = domainMax -
\* panOffsetDays and visibleMin = max(domainMin, visibleMax - viewDays);
\* where visibleMax - viewDays falls below domainMin the mapping uses
\* visibleMax = min(domainMax, domainMin + viewDays), so the visible window
\* never extends beyond [domainMin, domainMax].
VisibleWindowWithinDomain ==
    (xScale # <<>> /\ xsArgs.viewDays > 0 /\ xsArgs.panOffset >= 0) =>
        LET view == xsArgs.viewDays * HoursPerDay
            panned == DomainMax - xsArgs.panOffset * HoursPerDay
        IN  /\ xScale.visibleMinX = Max(DomainMin, panned - view)
            /\ xScale.visibleMaxX =
                   IF panned - view < DomainMin THEN Min(DomainMax, DomainMin + view)
                   ELSE panned
            /\ DomainMin <= xScale.visibleMinX
            /\ xScale.visibleMinX <= xScale.visibleMaxX
            /\ xScale.visibleMaxX <= DomainMax

\* The instants createXScale is probed at: around the first of February,
\* March and June 2024, by up to three days, and in the middle of a month.
ProbeDates ==
    {firstOfMonthTime(2024, month) + offset :
         month \in {1, 2, 5}, offset \in {-72, -48, -47, -1, 0, 1, 47, 48, 72}}
    \cup {DaysFromCivil(2024, 4, 16) * HoursPerDay + 12}

IsFirstOfMonth(instant) ==
    instant % HoursPerDay = 0 /\ CivilFromDays(instant \div HoursPerDay).day = 1

\* The first-of-month instants from the one at or before lo through hi.
MonthTicks(lo, hi) ==
    LET firsts == {h \in (lo - 31 * HoursPerDay)..hi : IsFirstOfMonth(h)}
    IN  {h \in firsts : h >= lo \/ \A g \in firsts : g <= lo => g <= h}

\* C15: when the visible span is over 90 and at most 365 days, a timestamp
\* within the 2-day tolerance of a first-of-month tick maps to the same pixel
\* offset as that tick; outside that range nothing snaps and every timestamp
\* t maps to (t - visibleMin) / (visibleMax - visibleMin) * pixelWidth.
MonthTicksSnap ==
    xScale # <<>> =>
        LET lo == xScale.visibleMinX
            hi == xScale.visibleMaxX
            Linear(t) == Divide((t - lo) * xScale.chartWidth, hi - lo)
        IN  IF hi - lo > 90 * HoursPerDay /\ hi - lo <= 365 * HoursPerDay
            THEN /\ {xScale.tickDates[i] : i \in DOMAIN xScale.tickDates} = MonthTicks(lo, hi)
                 /\ \A t \in ProbeDates, tick \in MonthTicks(lo, hi) :
                        Abs(t - tick) < 2 * HoursPerDay =>
                            /\ xScaleAt(xScale, t) = xScaleAt(xScale, tick)
                            /\ xScaleAt(xScale, t) = Linear(tick)
            ELSE \A t \in ProbeDates : xScaleAt(xScale, t) = Linear(t)

\* C15 witness: a scale with monthly ticks, one of them inside the visible
\* window with a probed instant 47 hours after it.
SnappedNearTick ==
    /\ xScale # <<>>
    /\ Len(xScale.tickDates) > 0
    /\ \E i \in DOMAIN xScale.tickDates :
           /\ xScale.tickDates[i] > xScale.visibleMinX
           /\ xScale.tickDates[i] + 47 \in ProbeDates
           /\ xScaleAt(xScale, xScale.tickDates[i] + 47)
                  = xScaleAt(xScale, xScale.tickDates[i])

-----------------------------------------------------------------------------
(* Claims on generateYValues and createYScale *)

DataMin == SeqMin(ysArgs.points)
DataMax == SeqMax(ysArgs.points)
\* The extent the ticks are laid over: the data's, a single repeated value v
\* being widened to [0.9 v, 1.1 v] when positive and to [v - 1, v + 1]
\* otherwise.
ExtentMin ==
    IF DataMin # DataMax THEN RatOf(DataMin)
    ELSE IF DataMin > 0 THEN Rat(9 * DataMin, 10) ELSE RatOf(DataMin - 1)
ExtentMax ==
    IF DataMin # DataMax THEN RatOf(DataMax)
    ELSE IF DataMax > 0 THEN Rat(11 * DataMax, 10) ELSE RatOf(DataMax + 1)

\* Log mode is in force: it was asked for and every value is positive.
LogMode == ysArgs.logScale /\ DataMin > 0

\* The tick set createYScale is built on.
ScaleTicks == generateYValues(ysArgs.points, YTickCount, ysArgs.logScale)
GraphMin == RatSeqMin(ScaleTicks)
GraphMax == RatSeqMax(ScaleTicks)
ChartHeight == RatOf(ysArgs.chartHeight)
InChart(offset) == RatLe(RatOf(0), offset) /\ RatLe(offset, ChartHeight)

\* The inputs the returned function is probed at.
YProbes ==
    {RatOf(v) : v \in {-5, -1, 0, 1, 2, 3, 7, 20, 50, 100, 200}}
    \cup {Rat(1, 2), Rat(3, 2)}

\* C16: createYScale takes graphMin and graphMax from the tick set of
\* generateYValues for the same values and mode, not from the data: in
\* linear and in log mode the lowest tick maps to chartHeight, the highest
\* to 0, and every data value and every tick into [0, chartHeight].
YScaleBoundedByTicks ==
    (yScale # <<>> /\ Len(ysArgs.points) > 0) =>
        LET scale == yScale.scale
        IN  /\ scale.kind = IF LogMode THEN "log" ELSE "linear"
            /\ scale.minY = IF LogMode THEN RatOf(log10(GraphMin)) ELSE GraphMin
            /\ scale.maxY = IF LogMode THEN RatOf(log10(GraphMax)) ELSE GraphMax
            /\ yScaleAt(scale, GraphMin) = ChartHeight
            /\ yScaleAt(scale, GraphMax) = RatOf(0)
            /\ \A i \in DOMAIN ScaleTicks : InChart(yScaleAt(scale, ScaleTicks[i]))
            /\ \A i \in DOMAIN ysArgs.points :
                   InChart(yScaleAt(scale, RatOf(ysArgs.points[i])))

\* C16 witness: a log scale whose lowest tick lies below the smallest value,
\* which therefore sits above the bottom of the chart.
LowestTickBelowData ==
    /\ yScale # <<>>
    /\ Len(ysArgs.points) > 0
    /\ yScale.scale.kind = "log"
    /\ RatLt(GraphMin, RatOf(DataMin))
    /\ RatLt(yScaleAt(yScale.scale, RatOf(DataMin)), ChartHeight)
    /\ yScaleAt(yScale.scale, GraphMin) = ChartHeight

\* C17: in linear mode, for a non-empty value set (a single repeated value
\* included), the step is m * 10^k with k = floor(log10(rawStep)),
\* rawStep = (max - min) / (count - 1), and m from {1, 2, 5, 10} by the
\* thresholds 1.5, 3 and 7 on rawStep / 10^k; the ticks are every multiple
\* of the step from floor(min / step) * step to ceil(max / step) * step, so
\* the smallest is <= the data minimum and the largest >= the data maximum.
NiceLinearTicks ==
    (yScale # <<>> /\ Len(ysArgs.points) > 0 /\ ~LogMode) =>
        LET rawStep == RatDiv(RatSub(ExtentMax, ExtentMin), RatOf(ysArgs.count - 1))
            ticks == yScale.ticks
        IN  \E k \in Exponents, m \in {1, 2, 5, 10} :
                LET normalized == RatDiv(rawStep, Pow10(k))
                    niceStep == RatMul(RatOf(m), Pow10(k))
                    first == RatFloor(RatDiv(ExtentMin, niceStep))
                    last == RatCeil(RatDiv(ExtentMax, niceStep))
                IN  /\ RatLe(Pow10(k), rawStep) /\ RatLt(rawStep, Pow10(k + 1))
                    /\ m = IF RatLt(normalized, Rat(3, 2)) THEN 1
                           ELSE IF RatLt(normalized, RatOf(3)) THEN 2
                           ELSE IF RatLt(normalized, RatOf(7)) THEN 5
                           ELSE 10
                    /\ ticks = [j \in 1..(last - first + 1) |->
                                   RatMul(RatOf(first + j - 1), niceStep)]
                    /\ RatLe(ticks[1], RatOf(DataMin))
                    /\ RatLe(RatOf(DataMax), ticks[Len(ticks)])

\* C17 witness: linear ticks of a single repeated value, the first of them
\* below the value and the last above it.
RepeatedValueBracketed ==
    /\ yScale # <<>>
    /\ Len(ysArgs.points) = 2
    /\ ~ysArgs.logScale
    /\ DataMin = DataMax
    /\ RatLt(yScale.ticks[1], RatOf(DataMin))
    /\ RatLt(RatOf(DataMax), yScale.ticks[Len(yScale.ticks)])

\* The values m * 10^k with m in {1, 2, 5}.
LogGrid == {RatMul(RatOf(m), Pow10(k)) : m \in {1, 2, 5}, k \in Exponents}

StrictlyAscending(ticks) ==
    \A i \in DOMAIN ticks : i < Len(ticks) => RatLt(ticks[i], ticks[i + 1])

LogRefused == ysArgs.logScale /\ Len(ysArgs.points) > 0 /\ DataMin <= 0

\* chartHeight - (y - graphMin) / (graphMax - graphMin) * chartHeight
LinearOffset(y) ==
    RatSub(ChartHeight,
           RatMul(RatDiv(RatSub(y, GraphMin), RatSub(GraphMax, GraphMin)), ChartHeight))

\* C19, as stated: when log scale is requested but the data contains a value
\* <= 0, the Y scale maps every non-positive input to chartHeight.
NonPositiveAtFarEdge ==
    (yScale # <<>> /\ LogRefused) =>
        \A y \in YProbes : y.n <= 0 => yScaleAt(yScale.scale, y) = ChartHeight

\* C19, amended: when log scale is requested but the data contains a value
\* <= 0, the Y scale does not fail: it is the linear scale over the linear
\* ticks, which maps every input y, non-positive ones included, to
\* chartHeight - (y - graphMin) / (graphMax - graphMin) * chartHeight, so a
\* non-positive input is at chartHeight only when it equals graphMin.
LogRefusedIsLinear ==
    (yScale # <<>> /\ LogRefused) =>
        /\ yScale.scale.kind = "linear"
        /\ RatLt(GraphMin, GraphMax)
        /\ \A y \in YProbes :
               /\ yScaleAt(yScale.scale, y) = LinearOffset(y)
               /\ (y.n <= 0 /\ yScaleAt(yScale.scale, y) = ChartHeight) => y = GraphMin

\* C19 witness: log scale asked for on data with a value <= 0, and the input
\* 0 placed strictly inside the chart.
ZeroInsideChart ==
    /\ yScale # <<>>
    /\ LogRefused
    /\ RatLt(RatOf(0), yScaleAt(yScale.scale, RatOf(0)))
    /\ RatLt(yScaleAt(yScale.scale, RatOf(0)), ChartHeight)

\* C20: whenever graphMin < graphMax the returned mapping is strictly
\* monotonic over the valid domain (every input in linear mode, inputs > 0
\* in log mode), a larger value being placed strictly higher, that is at a
\* strictly smaller offset; when graphMin = graphMax it is the constant
\* chartHeight / 2.
YScaleStrictlyMonotonic ==
    yScale # <<>> =>
        LET scale == yScale.scale
            valid == {y \in YProbes \cup {ScaleTicks[i] : i \in DOMAIN ScaleTicks} :
                          (ysArgs.logScale /\ GraphMin.n > 0) => y.n > 0}
        IN  IF RatLt(GraphMin, GraphMax)
            THEN \A y1, y2 \in valid :
                     RatLt(y1, y2) => RatLt(yScaleAt(scale, y2), yScaleAt(scale, y1))
            ELSE \A y \in YProbes : yScaleAt(scale, y) = Rat(ysArgs.chartHeight, 2)

\* C20 witness: a log scale that places 20 strictly higher than 3, both
\* inside the chart.
HigherValueHigherOnLogScale ==
    /\ yScale # <<>>
    /\ yScale.scale.kind = "log"
    /\ RatLt(GraphMin, GraphMax)
    /\ RatLt(yScaleAt(yScale.scale, RatOf(20)), yScaleAt(yScale.scale, RatOf(3)))
    /\ RatLt(RatOf(0), yScaleAt(yScale.scale, RatOf(20)))
    /\ RatLt(yScaleAt(yScale.scale, RatOf(3)), ChartHeight)

-----------------------------------------------------------------------------
(* Claims on generateSmoothPath and the dataset line *)

\* The path is a move to the first point followed by one straight segment
\* to each of the points 2..N in order, and no curve.
StraightThrough(path, points, paddingLeft, paddingTop) ==
    /\ Len(path) = Len(points)
    /\ \A i \in DOMAIN path :
           /\ path[i].op = IF i = 1 THEN "M" ELSE "L"
           /\ path[i].x = RatOf(paddingLeft + 10 * points[i].x)
           /\ path[i].y = RatOf(paddingTop + 100 - 10 * points[i].y)

\* C21: generateSmoothPath returns the empty path for fewer than 2 points;
\* for tension 0 with 2 or more points, and for exactly 2 points with any
\* tension, it returns a move to the first point followed by exactly one
\* straight segment per consecutive pair and no curve segment.
StraightPathCases ==
    (fnOut # <<>> /\ fnCall.fn = "path") =>
        /\ Len(fnCall.points) < 2 => fnOut.path = <<>>
        /\ (/\ Len(fnCall.points) >= 2
            /\ \/ fnCall.tension = RatOf(0)
               \/ Len(fnCall.points) = 2)
           => StraightThrough(fnOut.path, fnCall.points, fnCall.paddingLeft,
                              fnCall.paddingTop)

\* C21 witness: four points with tension 0 give a move and three lines.
FourPointsTensionZero ==
    /\ fnOut # <<>>
    /\ fnCall.fn = "path"
    /\ Len(fnCall.points) = 4
    /\ fnCall.tension = RatOf(0)
    /\ Len(fnOut.path) = 4
    /\ fnOut.path[4].op = "L"

\* C28: a dataset whose configured tension is 0 is drawn by ChronosChart
\* with straight segments between consecutive points and no cubic curve,
\* whatever the chart-level default tension is.
ZeroTensionDatasetStraight ==
    (fnOut # <<>> /\ fnCall.fn = "path" /\ fnCall.tension = RatOf(0)
         /\ Len(fnCall.points) >= 2) =>
        StraightThrough(fnOut.drawn, fnCall.points, fnCall.paddingLeft, fnCall.paddingTop)

-----------------------------------------------------------------------------
(* Claims on the rolling metric and the summary *)

\* The id of the call is no StatsResult field.
UnknownId == fnCall.rId \notin StatIds
\* The three calls on the entries have returned.
RollingCalled == fnOut # <<>> /\ fnCall.fn = "rolling" /\ "summary" \in DOMAIN fnOut
\* The number of windows of the raw entries, and of the buckets.
RawWindows == Len(fnCall.entries) - fnCall.win + 1
BucketWindows == Len(getPeriodData(fnCall.entries, fnCall.period).labels) - fnCall.win + 1

InlineRollingMatchesRunningMetric ==
    (RollingCalled /\ fnCall.rId \in StatIds) => fnOut.inline = fnOut.running

-----------------------------------------------------------------------------
(* C23: month shading while panning *)

GridCalled == fnOut # <<>> /\ fnCall.fn = "grid"

\* The months from the first to the last of the loaded dataset.
DatasetMonths == monthIndexOf(SeqMin(fnCall.points))..monthIndexOf(SeqMax(fnCall.points))

MonthStart(m) == firstOfMonthTime(m \div 12, m % 12)

\* The pan offsets the controller allows for the dataset and view length.
AllowedOffsets ==
    0..(IF fnCall.viewDays > 0
        THEN Max(0, totalDomainDaysOf(fnCall.points) - fnCall.viewDays) ELSE 0)

\* Some stretch of month m lies inside the window shown at pan offset p.
VisibleAt(m, p) ==
    LET range == getVisibleDateRange(fnCall.points, fnCall.viewDays, p)
    IN  Max(MonthStart(m), range.minDate) < Min(MonthStart(m + 1), range.maxDate)

\* C23: for a fixed dataset and viewDays a calendar month is shaded at every
\* pan offset at which it is visible or at none of them: a month shaded at
\* the offset drawn is shaded at every other allowed offset that shows it,
\* and a month left unshaded is unshaded at each of them.
ShadingStableWhilePanning ==
    GridCalled =>
        \A q \in AllowedOffsets : \A m \in DatasetMonths :
            (VisibleAt(m, fnCall.panOffset) /\ VisibleAt(m, q))
                => (m \in fnOut.shaded
                       <=> m \in shadedMonths(fnCall.points, fnCall.viewDays, q,
                                              fnCall.chartWidth))

\* The shaded months are those an even number of months after the first
\* month of the dataset.
ShadedByDatasetParity ==
    GridCalled =>
        \A m \in fnOut.shaded : (m - monthIndexOf(SeqMin(fnCall.points))) % 2 = 0


-----------------------------------------------------------------------------
(* C25: the window of the grid and the window of the X scale *)

\* C25: for every non-empty point set, viewDays >= 0 and allowed pan offset,
\* getVisibleDateRange returns exactly the [visibleMin, visibleMax] window
\* createXScale maps to pixels.
VisibleRangeIsScaleWindow ==
    GridCalled =>
        /\ fnOut.range.minDate = fnOut.xScale.visibleMinX
        /\ fnOut.range.maxDate = fnOut.xScale.visibleMaxX

-----------------------------------------------------------------------------
(* C24: what changes the pan offset *)

\* C24: the pan offset changes only on a pointer-move while Panning with
\* viewDays > 0, through panTo with viewDays > 0, or by being reset to 0;
\* a pointer-move while not Panning, a pointer-enter, a pointer-leave and a
\* pointer-down with viewDays <= 0 leave it unchanged, and such a
\* pointer-down does not enter Panning.
PanOffsetChangesOnlyByPanning ==
    [][/\ panOffset' # panOffset
           => \/ lastOp' = "pointermove" /\ isPanning /\ optViewDays > 0
              \/ lastOp' = "panTo" /\ optViewDays > 0
              \/ panOffset' = 0
       /\ (lastOp' = "pointermove" /\ ~isPanning) => panOffset' = panOffset
       /\ lastOp' \in {"pointerenter", "pointerleave"} => panOffset' = panOffset
       /\ (lastOp' = "pointerdown" /\ optViewDays <= 0)
           => panOffset' = panOffset /\ isPanning' = isPanning]_vars

\* A pointer-move of a drag has moved the offset to a value other than 0.
DragMovedOffset ==
    /\ lastOp = "pointermove"
    /\ pre.panning
    /\ panOffset # pre.offset
    /\ panOffset # 0

-----------------------------------------------------------------------------
(* C27: getPeriodData places every entry in exactly one bucket *)

RECURSIVE RatSum(_)
RatSum(arr) == IF arr = <<>> THEN RatOf(0) ELSE RatAdd(Head(arr), RatSum(Tail(arr)))

PeriodDataCalled == periodPc = "period" /\ pdPeriod \in BucketPeriods

\* C27: for any entries and any period of day, week, month, quarter and
\* year, the elements of the count dataset sum to the number of entries and
\* the elements of the sum dataset sum to the total of the entry values
\* (without entries there is no dataset at all).
BucketsPartitionEntries ==
    PeriodDataCalled =>
        IF Len(pdEntries) = 0
        THEN outPeriod.datasets = <<>>
        ELSE /\ RatSum(outPeriod.datasets["count"]) = RatOf(Len(pdEntries))
             /\ RatSum(outPeriod.datasets["sum"])
                    = RatOf(SumSeq([i \in DOMAIN pdEntries |-> pdEntries[i].value]))

\* Several entries of different values share a bucket.
EntriesShareBucket ==
    /\ PeriodDataCalled
    /\ Len(pdEntries) >= 2
    /\ Len(outPeriod.labels) < Len(pdEntries)
    /\ \E i, j \in DOMAIN pdEntries : pdEntries[i].value # pdEntries[j].value

-----------------------------------------------------------------------------
(* C29: one definition of the relative ranges *)

WindowCalled == fnOut # <<>> /\ fnCall.fn = "window"

\* C29: for the tokens month, quarter and year and any reference instant,
\* filterByRange, updateChartTimeRange and SeriesChart.updateChart yield a
\* window of the same length, that of subtracting whole calendar months or
\* years from the reference instant.
RangeWindowsUniform ==
    (WindowCalled /\ fnCall.range \in {"month", "quarter", "year"}) =>
        /\ fnOut.filterDays = fnOut.chartDays
        /\ fnOut.chartDays = fnOut.viewDays

\* The day-counted tokens give the same window in the three modules.
DayCountedWindowsUniform ==
    (WindowCalled /\ fnCall.range \in {"day", "week", "custom"}) =>
        /\ fnOut.filterDays = fnOut.chartDays
        /\ fnOut.chartDays = fnOut.viewDays

-----------------------------------------------------------------------------
(* C30: quick increments, overlapping or not *)

\* Every invocation begun has finished, and one at least was begun.
IncrementsSettled ==
    /\ fnCall # <<>>
    /\ fnCall.fn = "increment"
    /\ fnOut.started >= 1
    /\ fnOut.finished = fnOut.started

\* Today's entries of a store.
TodayEntries(db) == SelectSeq(db, LAMBDA e : e.day = "today")

\* k invocations leave exactly one entry of today, k higher than the one
\* before the first invocation, or of value k when there was none.
ExactlyCounted ==
    LET before == TodayEntries(fnCall.entries)
        after == TodayEntries(fnOut.db)
    IN  /\ Len(after) = 1
        /\ after[1].value = (IF before = <<>> THEN 0 ELSE before[1].value) + fnOut.started

\* C30: quick-increment invoked k times for one series on one day, overlapping
\* invocations included, leaves exactly one entry for the day, k higher than
\* before: no increment is lost and no second entry of the day is created.
NoIncrementLost == IncrementsSettled => ExactlyCounted

\* Invocations that never overlap are all counted.
SequentialIncrementsCounted ==
    (IncrementsSettled /\ ~fnOut.overlapped) => ExactlyCounted

====
